---- MODULE Spec2Model ----
(***************************************************************************)
(* A model of the gosh interpreter core (github.com/pdk/gosh): the scope   *)
(* analysis of compile/node.go, the variable scopes of                     *)
(* compile/variables.go, the values of compile/value.go and the evaluator  *)
(* compiler of compile/evaluator.go, driven by the REPL of repl/repl.go.   *)
(*                                                                         *)
(* Syntax trees are records [tok, lit, pos, ch, analysis]; pos stands for  *)
(* the lexeme's source position and identifies the node.  The heap of      *)
(* *Value cells and of *Variables scopes is explicit: a scope maps names   *)
(* to cell indexes, so that two scopes sharing a cell is observable.       *)
(* An Evaluator closure is modelled by the node it was compiled from; the  *)
(* compile pass (Node.Evaluator) and the run pass are separate operators.  *)
(***************************************************************************)
EXTENDS Integers, Sequences, FiniteSets, TLC

\* The number of inputs the REPL reads in one behaviour.
MaxSteps == 2

\* The number of loop iterations and function applications one Evaluate may
\* run before the model reports it as not returning.
MaxFuel == 8

----------------------------------------------------------------------------
(* Syntax nodes (compile/node.go: Node).                                   *)

NoAnalysis == [none |-> TRUE]

N(tok, lit, ch) ==
    [tok |-> tok, lit |-> lit, pos |-> <<>>, ch |-> ch, analysis |-> NoAnalysis]

IsToken(n, toks) == n.tok \in toks

RECURSIVE Label(_, _)
\* The lexer gives every lexeme its own line and column; here the position
\* of a node is its path from the root of the input it was read from.
Label(n, path) ==
    [n EXCEPT !.pos = path,
              !.ch = [i \in DOMAIN n.ch |-> Label(n.ch[i], Append(path, i))]]

RECURSIVE SubtreePos(_)
SubtreePos(n) ==
    {n.pos} \cup UNION {SubtreePos(n.ch[i]) : i \in DOMAIN n.ch}

----------------------------------------------------------------------------
(* Values (compile/value.go).  A Value is nil, a bool, an int64, a         *)
(* float64, a string, a Function or a ControlValue.                        *)

NilValue == [t |-> "nil"]
BoolV(b) == [t |-> "bool", b |-> b]
TrueValue == BoolV(TRUE)
FalseValue == BoolV(FALSE)
IntV(i) == [t |-> "int64", i |-> i]
StrV(s) == [t |-> "string", s |-> s]
\* A float64 is kept as a class (finite, +Inf, -Inf, NaN) and, when finite,
\* a fraction num/den in lowest terms with den > 0.
FloatV(k, num, den) == [t |-> "float64", k |-> k, num |-> num, den |-> den]
FuncV(parameters, channels, locals, body, captured) ==
    [t |-> "func", parameters |-> parameters, channels |-> channels,
     locals |-> locals, body |-> body, captured |-> captured]

ControlValue(which, returnValues) ==
    [t |-> "control", which |-> which, returnValues |-> returnValues]

BreakValue == <<ControlValue("break", <<>>)>>
ContinueValue == <<ControlValue("continue", <<>>)>>
ReturnValue(vals) == <<ControlValue("return", vals)>>

\* The empty []Value that SingleValue hands back, as a Value, with its error.
EmptyValues == [t |-> "values"]

TypeOf(v) == v.t

IsNil(v) == v.t = "nil"

IsTruthy(v) ==
    IF IsNil(v) THEN FALSE
    ELSE IF v.t = "bool" THEN v.b
    ELSE TRUE

IsControlValue(vals) == Len(vals) = 1 /\ vals[1].t = "control"
IsBreakValue(vals) == IsControlValue(vals) /\ vals[1].which = "break"
IsContinueValue(vals) == IsControlValue(vals) /\ vals[1].which = "continue"
IsReturnValue(vals) == IsControlValue(vals) /\ vals[1].which = "return"
WrappedValues(vals) == vals[1].returnValues

----------------------------------------------------------------------------
(* Variable scopes (compile/variables.go).  A machine m holds the heap:    *)
(* m.cells, the *Value cells; m.scopes, the Variables records, each a map  *)
(* from names to cell indexes and a parent (0 for none).                   *)

NoErr == [msg |-> "", pos |-> <<>>]
Err(msg, pos) == [msg |-> msg, pos |-> pos]
IsErr(e) == e.msg # ""

GlobalScope == [values |-> <<>>, parent |-> 0]

Bound(m, s, name) == name \in DOMAIN m.scopes[s].values

NewScope(m, parent) ==
    [m |-> [m EXCEPT !.scopes = Append(@, [values |-> <<>>, parent |-> parent])],
     id |-> Len(m.scopes) + 1]

RECURSIVE Reference(_, _, _)
Reference(m, s, name) ==
    IF s = 0 THEN [ref |-> 0, err |-> Err("attempt to access undefined variable", <<>>)]
    ELSE IF Bound(m, s, name)
         THEN [ref |-> m.scopes[s].values[name], err |-> NoErr]
         ELSE Reference(m, m.scopes[s].parent, name)

Value(m, s, name) ==
    LET r == Reference(m, s, name)
    IN  IF IsErr(r.err) THEN [val |-> NilValue, err |-> r.err]
        ELSE [val |-> m.cells[r.ref], err |-> NoErr]

SetRef(m, s, name, ref) ==
    [m EXCEPT !.scopes[s].values =
        [k \in DOMAIN @ \cup {name} |-> IF k = name THEN ref ELSE @[k]]]

BindFresh(m, s, name, val) ==
    SetRef([m EXCEPT !.cells = Append(@, val)], s, name, Len(m.cells) + 1)

\* Set without the reflect.TypeOf comparison.
Set_Untyped(m, s, name, val) ==
    IF ~Bound(m, s, name) \/ IsNil(m.cells[m.scopes[s].values[name]])
    THEN [m |-> BindFresh(m, s, name, val), val |-> val, err |-> NoErr]
    ELSE [m |-> [m EXCEPT !.cells[m.scopes[s].values[name]] = val],
          val |-> val, err |-> NoErr]

\* Set that looks for the name along the chain of parents, as Value does.
Set_ThroughChain(m, s, name, val) ==
    LET r == Reference(m, s, name)
    IN  IF IsErr(r.err) \/ IsNil(m.cells[r.ref])
        THEN [m |-> BindFresh(m, s, name, val), val |-> val, err |-> NoErr]
        ELSE IF TypeOf(m.cells[r.ref]) # TypeOf(val)
        THEN [m |-> m, val |-> val,
              err |-> Err("attempt to convert variable to another type", <<>>)]
        ELSE [m |-> [m EXCEPT !.cells[r.ref] = val], val |-> val, err |-> NoErr]

Set(m, s, name, val) ==
    IF ~Bound(m, s, name) \/ IsNil(m.cells[m.scopes[s].values[name]])
    THEN [m |-> BindFresh(m, s, name, val), val |-> val, err |-> NoErr]
    ELSE LET cur == m.scopes[s].values[name]
         IN  IF TypeOf(m.cells[cur]) # TypeOf(val)
             THEN [m |-> m, val |-> val,
                   err |-> Err("attempt to convert variable to another type", <<>>)]
             ELSE [m |-> [m EXCEPT !.cells[cur] = val], val |-> val, err |-> NoErr]

----------------------------------------------------------------------------
(* Scope analysis (compile/node.go).  A collector is the Analysis being    *)
(* filled; the analysed tree is the tree with an Analysis attached to      *)
(* every function node the walk reached.                                   *)

NewAnalysis ==
    [identifiers |-> {}, locals |-> {}, externs |-> {}, panicked |-> FALSE]

RECURSIVE SetToSeq(_)
\* The order in which Go ranges over a map, fixed to one enumeration.
SetToSeq(S) ==
    IF S = {} THEN <<>>
    ELSE LET x == CHOOSE e \in S : TRUE IN <<x>> \o SetToSeq(S \ {x})

StringIn(x, l) == \E i \in DOMAIN l : l[i] = x

RECURSIVE Idents(_)
RECURSIVE IdentsFrom(_, _, _)
IdentsFrom(n, i, ids) ==
    IF i > Len(n.ch) THEN [ids |-> ids, err |-> NoErr]
    ELSE LET r == Idents(n.ch[i])
         IN  IF IsErr(r.err) THEN [ids |-> ids, err |-> r.err]
             ELSE IdentsFrom(n, i + 1, ids \o r.ids)

Idents(n) ==
    IF ~IsToken(n, {"IDENT", "COMMA", "LSQR", "LPAREN"})
    THEN [ids |-> <<>>, err |-> Err("expected to find (one of)", n.pos)]
    ELSE IF IsToken(n, {"IDENT"}) THEN [ids |-> <<n.lit>>, err |-> NoErr]
    ELSE IdentsFrom(n, 1, <<>>)

RECURSIVE PrimaryIdent(_)
\* A failed assertion returns the empty name and no error; indexing the
\* first child of a childless node is an index-out-of-range panic.
PrimaryIdent(n) ==
    IF ~IsToken(n, {"IDENT", "PERIOD", "LSQR"})
    THEN [id |-> "", err |-> NoErr, panicked |-> FALSE]
    ELSE IF IsToken(n, {"IDENT"})
    THEN [id |-> n.lit, err |-> NoErr, panicked |-> FALSE]
    ELSE IF Len(n.ch) = 0
    THEN [id |-> "", err |-> NoErr, panicked |-> TRUE]
    ELSE PrimaryIdent(n.ch[1])

RECURSIVE AssignTargets(_, _, _)
AssignTargets(lhs, i, col) ==
    IF i > Len(lhs.ch) THEN col
    ELSE LET p == PrimaryIdent(lhs.ch[i])
         IN  IF p.panicked THEN [col EXCEPT !.panicked = TRUE]
             ELSE AssignTargets(lhs, i + 1, [col EXCEPT !.locals = @ \cup {p.id}])

AssignAnalysis(n, col) ==
    IF ~IsToken(n, {"ASSIGN", "QASSIGN", "ACCUM"}) THEN col
    ELSE LET leftHandSide == n.ch[1]
         IN  IF IsToken(leftHandSide, {"COMMA", "LPAREN"})
             THEN AssignTargets(leftHandSide, 1, col)
             ELSE LET p == PrimaryIdent(leftHandSide)
                  IN  IF p.panicked THEN [col EXCEPT !.panicked = TRUE]
                      ELSE [col EXCEPT !.locals = @ \cup {p.id}]

ExternNames(n) ==
    {n.ch[i].lit : i \in {j \in DOMAIN n.ch : IsToken(n.ch[j], {"IDENT"})}}

RECURSIVE ScopeAnalysis(_, _)
RECURSIVE AnalyzeFrom(_, _, _)
\* ScopeAnalysis of the children i.. of n, one after the other.
AnalyzeFrom(n, i, col) ==
    IF i > Len(n.ch) \/ col.panicked THEN [n |-> n, col |-> col]
    ELSE LET r == ScopeAnalysis(n.ch[i], col)
         IN  AnalyzeFrom([n EXCEPT !.ch[i] = r.n], i + 1, r.col)

\* FuncAnalysis without the deletion of the externs from the locals.
FuncAnalysis_KeepsLocals(n) ==
    LET p == Idents(n.ch[1])
        c == Idents(n.ch[2])
        r == ScopeAnalysis(n.ch[3], NewAnalysis)
        empty == [identifiers |-> {}, locals |-> {}, externs |-> {},
                  parameters |-> p.ids, channels |-> <<>>, hasBody |-> FALSE]
    IN  IF IsErr(p.err)
        THEN [n |-> [n EXCEPT !.analysis = empty], panicked |-> FALSE, err |-> p.err]
        ELSE IF IsErr(c.err)
        THEN [n |-> [n EXCEPT !.analysis = [empty EXCEPT !.channels = c.ids]],
              panicked |-> FALSE, err |-> c.err]
        ELSE [n |-> [n EXCEPT !.ch[3] = r.n,
                              !.analysis =
                                  [identifiers |-> r.col.identifiers,
                                   locals |-> r.col.locals,
                                   externs |-> r.col.externs,
                                   parameters |-> p.ids, channels |-> c.ids,
                                   hasBody |-> TRUE]],
              panicked |-> r.col.panicked, err |-> NoErr]

FuncAnalysis(n) ==
    LET p == Idents(n.ch[1])
        c == Idents(n.ch[2])
        r == ScopeAnalysis(n.ch[3], NewAnalysis)
        empty == [identifiers |-> {}, locals |-> {}, externs |-> {},
                  parameters |-> p.ids, channels |-> <<>>, hasBody |-> FALSE]
    IN  IF IsErr(p.err)
        THEN [n |-> [n EXCEPT !.analysis = empty], panicked |-> FALSE, err |-> p.err]
        ELSE IF IsErr(c.err)
        THEN [n |-> [n EXCEPT !.analysis = [empty EXCEPT !.channels = c.ids]],
              panicked |-> FALSE, err |-> c.err]
        ELSE [n |-> [n EXCEPT !.ch[3] = r.n,
                              !.analysis =
                                  [identifiers |-> r.col.identifiers,
                                   locals |-> r.col.locals \ r.col.externs,
                                   externs |-> r.col.externs,
                                   parameters |-> p.ids, channels |-> c.ids,
                                   hasBody |-> TRUE]],
              panicked |-> r.col.panicked, err |-> NoErr]

MethApplyAnalysis(n, col) ==
    LET p == PrimaryIdent(n.ch[1])
    IN  IF p.panicked THEN [n |-> n, col |-> [col EXCEPT !.panicked = TRUE]]
        ELSE AnalyzeFrom(n, 3, [col EXCEPT !.identifiers = @ \cup {p.id}])

\* ScopeAnalysis that also enters the names of a function literal in the
\* collector of the function around it.
ScopeAnalysis_OneCollector(n, col) ==
    IF IsToken(n, {"FUNC"})
    THEN LET f == FuncAnalysis(n)
             inner == f.n.analysis
         IN  [n |-> f.n,
              col |-> [col EXCEPT !.panicked = @ \/ f.panicked,
                                  !.identifiers = @ \cup inner.identifiers,
                                  !.locals = @ \cup inner.locals,
                                  !.externs = @ \cup inner.externs],
              err |-> f.err]
    ELSE IF IsToken(n, {"METHAPPLY"})
    THEN LET r == MethApplyAnalysis(n, col)
         IN  [n |-> r.n, col |-> r.col, err |-> NoErr]
    ELSE LET a == AssignAnalysis(n, col)
             e == IF IsToken(n, {"EXTERN"})
                  THEN [a EXCEPT !.externs = @ \cup ExternNames(n)] ELSE a
             c == IF IsToken(n, {"IDENT"})
                  THEN [e EXCEPT !.identifiers = @ \cup {n.lit}] ELSE e
         IN  IF c.panicked THEN [n |-> n, col |-> c, err |-> NoErr]
             ELSE IF IsToken(n, {"PERIOD"})
             THEN LET r == ScopeAnalysis(n.ch[1], c)
                  IN  [n |-> [n EXCEPT !.ch[1] = r.n], col |-> r.col, err |-> NoErr]
             ELSE LET r == AnalyzeFrom(n, 1, c)
                  IN  [n |-> r.n, col |-> r.col, err |-> NoErr]

\* The error returned is FuncAnalysis's own; the errors of the calls on the
\* children are not looked at.
ScopeAnalysis(n, col) ==
    IF IsToken(n, {"FUNC"})
    THEN LET f == FuncAnalysis(n)
         IN  [n |-> f.n, col |-> [col EXCEPT !.panicked = @ \/ f.panicked],
              err |-> f.err]
    ELSE IF IsToken(n, {"METHAPPLY"})
    THEN LET r == MethApplyAnalysis(n, col)
         IN  [n |-> r.n, col |-> r.col, err |-> NoErr]
    ELSE LET a == AssignAnalysis(n, col)
             e == IF IsToken(n, {"EXTERN"})
                  THEN [a EXCEPT !.externs = @ \cup ExternNames(n)] ELSE a
             c == IF IsToken(n, {"IDENT"})
                  THEN [e EXCEPT !.identifiers = @ \cup {n.lit}] ELSE e
         IN  IF c.panicked THEN [n |-> n, col |-> c, err |-> NoErr]
             ELSE IF IsToken(n, {"PERIOD"})
             THEN LET r == ScopeAnalysis(n.ch[1], c)
                  IN  [n |-> [n EXCEPT !.ch[1] = r.n], col |-> r.col, err |-> NoErr]
             ELSE LET r == AnalyzeFrom(n, 1, c)
                  IN  [n |-> r.n, col |-> r.col, err |-> NoErr]

RECURSIVE FreeFrom_NoLookup(_, _, _)
\* The loop of FreeVariables without the look-up in the names found so far.
FreeFrom_NoLookup(a, ids, free) ==
    IF ids = <<>> THEN free
    ELSE LET id == Head(ids)
         IN  FreeFrom_NoLookup(a, Tail(ids),
                 IF ~StringIn(id, a.parameters)
                    /\ ~StringIn(id, a.channels) /\ id \notin a.locals
                 THEN Append(free, id) ELSE free)

RECURSIVE FreeFrom(_, _, _)
FreeFrom(a, ids, free) ==
    IF ids = <<>> THEN free
    ELSE LET id == Head(ids)
         IN  FreeFrom(a, Tail(ids),
                 IF ~StringIn(id, free) /\ ~StringIn(id, a.parameters)
                    /\ ~StringIn(id, a.channels) /\ id \notin a.locals
                 THEN Append(free, id) ELSE free)

FreeVariables(a) == FreeFrom(a, SetToSeq(a.identifiers), SetToSeq(a.externs))

\* repl.Analyze: the analysis runs on a fresh collector; what ScopeAnalysis
\* returns is not looked at, and the error returned is always nil.
Analyze(ast) ==
    LET r == ScopeAnalysis(ast, NewAnalysis)
    IN  [n |-> r.n, col |-> r.col, err |-> NoErr]

----------------------------------------------------------------------------
(* Literals and arithmetic.                                                *)

\* strconv.ParseInt and strconv.ParseFloat on the literals the inputs use;
\* any other literal fails to parse.
IntLiterals ==
    ("0" :> 0) @@ ("1" :> 1) @@ ("2" :> 2) @@ ("3" :> 3) @@ ("5" :> 5) @@ ("7" :> 7)
    @@ ("9" :> 9) @@ ("42" :> 42) @@ ("8" :> 8)

FloatLiterals ==
    ("0.0" :> FloatV("fin", 0, 1)) @@ ("1.0" :> FloatV("fin", 1, 1))
    @@ ("2.0" :> FloatV("fin", 2, 1)) @@ ("0.5" :> FloatV("fin", 1, 2))

Abs(a) == IF a < 0 THEN -a ELSE a

RECURSIVE GCD(_, _)
GCD(a, b) == IF b = 0 THEN a ELSE GCD(b, a % b)

\* Go's integer division truncates toward zero and % takes the sign of the
\* dividend; a zero divisor is a run-time panic.
TruncDiv(a, b) ==
    IF (a < 0) = (b < 0) THEN Abs(a) \div Abs(b) ELSE -(Abs(a) \div Abs(b))

TruncRem(a, b) == a - b * TruncDiv(a, b)

IntOp(op, a, b) ==
    CASE op = "+" -> [i |-> a + b, panicked |-> FALSE]
      [] op = "-" -> [i |-> a - b, panicked |-> FALSE]
      [] op = "*" -> [i |-> a * b, panicked |-> FALSE]
      [] op = "/" -> IF b = 0 THEN [i |-> 0, panicked |-> TRUE]
                     ELSE [i |-> TruncDiv(a, b), panicked |-> FALSE]
      [] op = "%" -> IF b = 0 THEN [i |-> 0, panicked |-> TRUE]
                     ELSE [i |-> TruncRem(a, b), panicked |-> FALSE]

Frac(num, den) ==
    LET g == GCD(Abs(num), Abs(den))
        sg == IF den < 0 THEN -1 ELSE 1
    IN  FloatV("fin", sg * (num \div g), sg * (den \div g))

NaN == FloatV("nan", 0, 1)
Inf(sign) == FloatV(IF sign < 0 THEN "-inf" ELSE "+inf", 0, 1)
SignOf(x) ==
    CASE x.k = "+inf" -> 1
      [] x.k = "-inf" -> -1
      [] OTHER -> IF x.num < 0 THEN -1 ELSE IF x.num > 0 THEN 1 ELSE 0

\* IEEE 754 arithmetic on the classes; finite results are exact fractions
\* (rounding and the sign of zero are not modelled).
FloatOp(op, x, y) ==
    IF x.k = "nan" \/ y.k = "nan" THEN NaN
    ELSE IF x.k = "fin" /\ y.k = "fin"
    THEN CASE op = "+" -> Frac(x.num * y.den + y.num * x.den, x.den * y.den)
           [] op = "-" -> Frac(x.num * y.den - y.num * x.den, x.den * y.den)
           [] op = "*" -> Frac(x.num * y.num, x.den * y.den)
           [] op = "/" -> IF y.num = 0
                          THEN (IF x.num = 0 THEN NaN ELSE Inf(x.num))
                          ELSE Frac(x.num * y.den, x.den * y.num)
    ELSE CASE op = "+" -> IF x.k # "fin" /\ y.k # "fin" /\ x.k # y.k THEN NaN
                          ELSE IF x.k # "fin" THEN x ELSE y
           [] op = "-" -> IF x.k # "fin" /\ y.k # "fin" /\ x.k = y.k THEN NaN
                          ELSE IF x.k # "fin" THEN x ELSE Inf(-SignOf(y))
           [] op = "*" -> IF SignOf(x) * SignOf(y) = 0 THEN NaN
                          ELSE Inf(SignOf(x) * SignOf(y))
           [] op = "/" -> IF x.k # "fin" /\ y.k # "fin" THEN NaN
                          ELSE IF x.k = "fin" THEN FloatV("fin", 0, 1)
                          ELSE Inf(SignOf(x) * (IF SignOf(y) < 0 THEN -1 ELSE 1))

----------------------------------------------------------------------------
(* The evaluator compiler (compile/evaluator.go): Node.Evaluator looks the *)
(* node's token up in nodeEvaluator and runs the producer, which compiles  *)
(* the children it needs.  Compile returns the error, if any, and the      *)
(* positions of the nodes Node.Evaluator was called on, in order.          *)

BinaryTokens ==
    {"PLUS", "MULT", "DIV", "MODULO", "EQUAL", "NOT_EQUAL", "LESS", "LESS_EQUAL",
     "GRTR", "GRTR_EQUAL", "LOG_AND", "LOG_OR", "WHILE"}

nodeEvaluator ==
    BinaryTokens \cup
    {"IDENT", "ASSIGN", "INT", "FLOAT", "STRING", "MINUS", "COMMA", "LPAREN",
     "TRUE", "FALSE", "NIL", "FUNC", "FUNCAPPLY", "STMTS", "EXTERN", "NOT",
     "IF", "RETURN", "BREAK", "CONTINUE"}

RECURSIVE Compile(_)
RECURSIVE CompileFrom(_, _, _, _)
\* Node.Evaluator on the children i..last of n, stopping at the first error.
CompileFrom(n, i, last, seen) ==
    IF i > last THEN [err |-> NoErr, seen |-> seen]
    ELSE LET c == Compile(n.ch[i])
         IN  IF IsErr(c.err) THEN [err |-> c.err, seen |-> seen \o c.seen]
             ELSE CompileFrom(n, i + 1, last, seen \o c.seen)

AssignTargetsOk(n) ==
    LET lhs == n.ch[1]
    IN  \/ IsToken(lhs, {"IDENT"})
        \/ /\ IsToken(lhs, {"COMMA"})
           /\ \A i \in DOMAIN lhs.ch : IsToken(lhs.ch[i], {"IDENT"})

Compile(n) ==
    LET here == <<n.pos>>
        ok == [err |-> NoErr, seen |-> here]
    IN  IF n.tok \notin nodeEvaluator
        THEN [err |-> Err("unknown operator", n.pos), seen |-> here]
        ELSE CASE n.tok \in BinaryTokens -> CompileFrom(n, 1, 2, here)
               [] n.tok = "MINUS" ->
                    CompileFrom(n, 1, IF Len(n.ch) = 1 THEN 1 ELSE 2, here)
               [] n.tok \in {"COMMA", "LPAREN", "STMTS", "IF", "FUNCAPPLY"} ->
                    CompileFrom(n, 1, Len(n.ch), here)
               [] n.tok = "NOT" -> CompileFrom(n, 1, 1, here)
               [] n.tok = "RETURN" ->
                    CompileFrom(n, 1, IF Len(n.ch) > 0 THEN 1 ELSE 0, here)
               [] n.tok = "ASSIGN" ->
                    IF ~AssignTargetsOk(n)
                    THEN [err |-> Err("left-hand side of assignment must be one or more identifiers", n.pos),
                          seen |-> here]
                    ELSE CompileFrom(n, 2, 2, here)
               [] n.tok = "INT" ->
                    IF n.lit \in DOMAIN IntLiterals THEN ok
                    ELSE [err |-> Err("strconv.ParseInt", n.pos), seen |-> here]
               [] n.tok = "FLOAT" ->
                    IF n.lit \in DOMAIN FloatLiterals THEN ok
                    ELSE [err |-> Err("strconv.ParseFloat", n.pos), seen |-> here]
               [] OTHER -> ok

----------------------------------------------------------------------------
(* Running an evaluator.  An Evaluator takes a scope and returns values    *)
(* and an error: here an operator of the node n it was compiled from, the scope  *)
(* s it is given and the machine m (heap, logs, fuel), returning the       *)
(* values, the error and the machine after it.  A Go run-time panic is an  *)
(* error whose message starts the process's death; nothing in the          *)
(* evaluator recovers from it.                                             *)

R(vals, err, m) == [vals |-> vals, err |-> err, m |-> m]

PanicMsgs ==
    {"panic: integer divide by zero", "panic: nil pointer dereference",
     "panic: comparing uncomparable type", "panic: index out of range"}
IsPanic(e) == e.msg \in PanicMsgs
\* The evaluation ran out of MaxFuel: it is reported as not returning.
Hang(pos) == Err("no return within MaxFuel", pos)
IsHang(e) == e.msg = "no return within MaxFuel"

RECURSIVE EvalNode(_, _, _)

SingleValue(n, vals) ==
    IF Len(vals) = 1 THEN [val |-> vals[1], err |-> NoErr]
    ELSE [val |-> EmptyValues, err |-> Err("expected single value", n.pos)]

StandardSingleEval(n, child, s, m) ==
    LET r == EvalNode(child, s, m)
        v == SingleValue(n, r.vals)
    IN  IF IsErr(r.err) THEN [val |-> NilValue, err |-> r.err, m |-> r.m]
        ELSE [val |-> v.val, err |-> v.err, m |-> r.m]

StandardBinaryEval(n, left, right, s, m) ==
    LET l == StandardSingleEval(n, left, s, m)
        r == StandardSingleEval(n, right, s, l.m)
    IN  IF IsErr(l.err)
        THEN [left |-> l.val, right |-> NilValue, err |-> l.err, m |-> l.m]
        ELSE [left |-> l.val, right |-> r.val, err |-> r.err, m |-> r.m]

VariableLookup(n, s, m) ==
    LET v == Value(m, s, n.lit)
    IN  IF IsErr(v.err) THEN R(<<>>, v.err, m) ELSE R(<<v.val>>, NoErr, m)

IntegerLiteral(n, s, m) == R(<<IntV(IntLiterals[n.lit])>>, NoErr, m)
FloatLiteral(n, s, m) == R(<<FloatLiterals[n.lit]>>, NoErr, m)
StringLiteral(n, s, m) == R(<<StrV(n.lit)>>, NoErr, m)
NilLiteral(n, s, m) == R(<<NilValue>>, NoErr, m)
TrueLiteral(n, s, m) == R(<<TrueValue>>, NoErr, m)
FalseLiteral(n, s, m) == R(<<FalseValue>>, NoErr, m)
Noop(n, s, m) == R(<<>>, NoErr, m)
BreakOperator(n, s, m) == R(BreakValue, NoErr, m)
ContinueOperator(n, s, m) == R(ContinueValue, NoErr, m)

\* TryBinaryInt64Op, then TryBinaryFloat64Op, on two evaluated operands.
NumericOp(n, op, l, r, m, floats) ==
    IF l.t = "int64" /\ r.t = "int64"
    THEN LET x == IntOp(op, l.i, r.i)
         IN  IF x.panicked THEN R(<<>>, Err("panic: integer divide by zero", n.pos), m)
             ELSE R(<<IntV(x.i)>>, NoErr, m)
    ELSE IF floats /\ l.t = "float64" /\ r.t = "float64"
    THEN R(<<FloatOp(op, l, r)>>, NoErr, m)
    ELSE R(<<>>, Err("cannot apply operator to these types", n.pos), m)

BinaryNumericOperation(n, op, s, m) ==
    LET b == StandardBinaryEval(n, n.ch[1], n.ch[2], s, m)
    IN  IF IsErr(b.err) THEN R(<<>>, b.err, b.m)
        ELSE NumericOp(n, op, b.left, b.right, b.m, TRUE)

BinaryIntOperation(n, op, s, m) ==
    LET b == StandardBinaryEval(n, n.ch[1], n.ch[2], s, m)
    IN  IF IsErr(b.err) THEN R(<<>>, b.err, b.m)
        ELSE NumericOp(n, op, b.left, b.right, b.m, FALSE)

AdditionOperator(n, s, m) ==
    LET b == StandardBinaryEval(n, n.ch[1], n.ch[2], s, m)
    IN  IF IsErr(b.err) THEN R(<<>>, b.err, b.m)
        ELSE IF b.left.t = "string" /\ b.right.t = "string"
        THEN R(<<StrV(b.left.s \o b.right.s)>>, NoErr, b.m)
        ELSE NumericOp(n, "+", b.left, b.right, b.m, TRUE)

NegativeOperation(n, s, m) ==
    LET r == EvalNode(n.ch[1], s, m)
        v == SingleValue(n, r.vals)
    IN  IF IsErr(r.err) THEN R(<<>>, r.err, r.m)
        ELSE IF IsErr(v.err) THEN R(<<>>, v.err, r.m)
        ELSE IF v.val.t = "int64" THEN R(<<IntV(-v.val.i)>>, NoErr, r.m)
        ELSE IF v.val.t = "float64"
        THEN R(<<FloatOp("-", FloatV("fin", 0, 1), v.val)>>, NoErr, r.m)
        ELSE R(<<>>, Err("cannot apply - (negative)", n.pos), r.m)

SubtractionOperator(n, s, m) ==
    IF Len(n.ch) = 1 THEN NegativeOperation(n, s, m)
    ELSE BinaryNumericOperation(n, "-", s, m)

MultiplicationOperator(n, s, m) == BinaryNumericOperation(n, "*", s, m)
DivisionOperator(n, s, m) == BinaryNumericOperation(n, "/", s, m)
ModuloOperation(n, s, m) == BinaryIntOperation(n, "%", s, m)

(* Comparisons (compile/value.go). *)

\* reflect.Kind of the wrapped value; TypeOf of a nil value is the nil Type,
\* and calling Kind on it is a nil dereference.
Kind(v) == IF v.t \in {"func", "control"} THEN "struct" ELSE v.t

StringsInOrder == <<"", "a", "aa", "ab", "b", "ba", "bb">>
StringRank(x) == CHOOSE i \in DOMAIN StringsInOrder : StringsInOrder[i] = x

FloatEq(x, y) == x.k # "nan" /\ y.k # "nan" /\ x = y
FloatLess(x, y) ==
    /\ x.k # "nan" /\ y.k # "nan"
    /\ CASE x.k = "-inf" -> y.k # "-inf"
         [] x.k = "+inf" -> FALSE
         [] OTHER -> CASE y.k = "+inf" -> TRUE
                       [] y.k = "-inf" -> FALSE
                       [] OTHER -> x.num * y.den < y.num * x.den

Less(l, r) ==
    CASE l.t = "int64" -> l.i < r.i
      [] l.t = "float64" -> FloatLess(l, r)
      [] l.t = "string" -> StringRank(l.s) < StringRank(r.s)

Same(l, r) == IF l.t = "float64" THEN FloatEq(l, r) ELSE l = r

Cmp(b, msg, panicked) == [b |-> b, msg |-> msg, panicked |-> panicked]

EqualValues(left, right) ==
    IF IsNil(left) \/ IsNil(right) THEN Cmp(FALSE, "", TRUE)
    ELSE IF Kind(left) # Kind(right)
    THEN Cmp(FALSE, "cannot compare values of different types", FALSE)
    ELSE IF left.t = right.t /\ Kind(left) = "struct" THEN Cmp(FALSE, "", TRUE)
    ELSE Cmp(Same(left, right), "", FALSE)

NotEqualValues(left, right) ==
    LET e == EqualValues(left, right) IN [e EXCEPT !.b = ~e.b]

checkCompareKinds(left, right) ==
    IF IsNil(left) \/ IsNil(right) THEN Cmp(FALSE, "", TRUE)
    ELSE IF Kind(left) # Kind(right)
    THEN Cmp(FALSE, "cannot compare values of different types", FALSE)
    ELSE IF Kind(left) \notin {"int64", "float64", "string"}
    THEN Cmp(FALSE, "don't know how to compare those types", FALSE)
    ELSE Cmp(TRUE, "", FALSE)

Ordered(left, right, b) ==
    LET c == checkCompareKinds(left, right)
    IN  IF c.panicked \/ c.msg # "" THEN c ELSE Cmp(b, "", FALSE)

LessThanValue(left, right) == Ordered(left, right, Less(left, right))
GreaterThanValue(left, right) == Ordered(left, right, Less(right, left))
LessThanEqualValue(left, right) ==
    Ordered(left, right, Less(left, right) \/ Same(left, right))
GreaterThanEqualValue(left, right) ==
    Ordered(left, right, Less(right, left) \/ Same(left, right))

Comp(tok, left, right) ==
    CASE tok = "EQUAL" -> EqualValues(left, right)
      [] tok = "NOT_EQUAL" -> NotEqualValues(left, right)
      [] tok = "LESS" -> LessThanValue(left, right)
      [] tok = "LESS_EQUAL" -> LessThanEqualValue(left, right)
      [] tok = "GRTR" -> GreaterThanValue(left, right)
      [] tok = "GRTR_EQUAL" -> GreaterThanEqualValue(left, right)

ComparisonOperator(n, s, m) ==
    LET b == StandardBinaryEval(n, n.ch[1], n.ch[2], s, m)
        c == Comp(n.tok, b.left, b.right)
    IN  IF IsErr(b.err) THEN R(<<>>, b.err, b.m)
        ELSE IF c.panicked
        THEN R(<<>>, Err(IF IsNil(b.left) \/ IsNil(b.right)
                         THEN "panic: nil pointer dereference"
                         ELSE "panic: comparing uncomparable type", n.pos), b.m)
        ELSE IF c.msg # "" THEN R(<<BoolV(c.b)>>, Err(c.msg, n.pos), b.m)
        ELSE R(<<BoolV(c.b)>>, NoErr, b.m)

NotOperator(n, s, m) ==
    LET v == StandardSingleEval(n, n.ch[1], s, m)
    IN  IF IsErr(v.err) THEN R(<<>>, v.err, v.m)
        ELSE R(<<BoolV(~IsTruthy(v.val))>>, NoErr, v.m)

\* && that evaluates both operands before it looks at the left one.
LogicalAndOperator_Eager(n, s, m) ==
    LET leftVal == StandardSingleEval(n, n.ch[1], s, m)
        rightVal == StandardSingleEval(n, n.ch[2], s, leftVal.m)
    IN  IF IsErr(leftVal.err) THEN R(<<leftVal.val>>, leftVal.err, leftVal.m)
        ELSE IF ~IsTruthy(leftVal.val) THEN R(<<leftVal.val>>, rightVal.err, rightVal.m)
        ELSE R(<<rightVal.val>>, rightVal.err, rightVal.m)

LogicalAndOperator(n, s, m) ==
    LET leftVal == StandardSingleEval(n, n.ch[1], s, m)
        rightVal == StandardSingleEval(n, n.ch[2], s, leftVal.m)
    IN  IF IsErr(leftVal.err) THEN R(<<leftVal.val>>, leftVal.err, leftVal.m)
        ELSE IF ~IsTruthy(leftVal.val) THEN R(<<leftVal.val>>, NoErr, leftVal.m)
        ELSE R(<<rightVal.val>>, rightVal.err, rightVal.m)

LogicialOrOperator(n, s, m) ==
    LET leftVal == StandardSingleEval(n, n.ch[1], s, m)
        rightVal == StandardSingleEval(n, n.ch[2], s, leftVal.m)
    IN  IF IsErr(leftVal.err) THEN R(<<leftVal.val>>, leftVal.err, leftVal.m)
        ELSE IF IsTruthy(leftVal.val) THEN R(<<leftVal.val>>, NoErr, leftVal.m)
        ELSE R(<<rightVal.val>>, rightVal.err, rightVal.m)

----------------------------------------------------------------------------
(* Statements, assignment, control flow and functions.                     *)

RECURSIVE StatementsFrom_NoControl(_, _, _, _, _)
\* The statement loop without the IsControlValue exit.
StatementsFrom_NoControl(n, i, s, m, results) ==
    IF i > Len(n.ch) THEN R(results, NoErr, m)
    ELSE LET r == EvalNode(n.ch[i], s, m)
         IN  IF IsErr(r.err) THEN R(<<>>, r.err, r.m)
             ELSE StatementsFrom_NoControl(n, i + 1, s, r.m, r.vals)

RECURSIVE StatementsFrom_PastErrors(_, _, _, _, _)
\* The statement loop that goes on after a statement's error and returns
\* the error when the list is done.
StatementsFrom_PastErrors(n, i, s, m, results) ==
    IF i > Len(n.ch) THEN R(results, NoErr, m)
    ELSE LET r == EvalNode(n.ch[i], s, m)
         IN  IF IsErr(r.err)
             THEN R(<<>>, r.err, StatementsFrom_PastErrors(n, i + 1, s, r.m, <<>>).m)
             ELSE IF IsControlValue(r.vals) THEN R(r.vals, NoErr, r.m)
             ELSE StatementsFrom_PastErrors(n, i + 1, s, r.m, r.vals)

RECURSIVE StatementsFrom_Accumulates(_, _, _, _, _)
\* The statement loop that returns the results of every statement, one
\* after the other.
StatementsFrom_Accumulates(n, i, s, m, results) ==
    IF i > Len(n.ch) THEN R(results, NoErr, m)
    ELSE LET r == EvalNode(n.ch[i], s, m)
         IN  IF IsErr(r.err) THEN R(<<>>, r.err, r.m)
             ELSE IF IsControlValue(r.vals) THEN R(r.vals, NoErr, r.m)
             ELSE StatementsFrom_Accumulates(n, i + 1, s, r.m, results \o r.vals)

RECURSIVE StatementsFrom(_, _, _, _, _)
StatementsFrom(n, i, s, m, results) ==
    IF i > Len(n.ch) THEN R(results, NoErr, m)
    ELSE LET r == EvalNode(n.ch[i], s, m)
         IN  IF IsErr(r.err) THEN R(<<>>, r.err, r.m)
             ELSE IF IsControlValue(r.vals) THEN R(r.vals, NoErr, r.m)
             ELSE StatementsFrom(n, i + 1, s, r.m, r.vals)

StatementsEvaluator(n, s, m) == StatementsFrom(n, 1, s, m, <<>>)

RECURSIVE MultiFrom(_, _, _, _, _)
MultiFrom(n, i, s, m, results) ==
    IF i > Len(n.ch) THEN R(results, NoErr, m)
    ELSE LET r == EvalNode(n.ch[i], s, m)
         IN  IF IsErr(r.err) THEN R(<<>>, r.err, r.m)
             ELSE MultiFrom(n, i + 1, s, r.m, results \o r.vals)

MultiValueOperator(n, s, m) == MultiFrom(n, 1, s, m, <<>>)

varNames(n) ==
    LET lhs == n.ch[1]
    IN  IF IsToken(lhs, {"IDENT"}) THEN <<lhs.lit>>
        ELSE [i \in DOMAIN lhs.ch |-> lhs.ch[i].lit]

RECURSIVE SetAll_Atomic(_, _, _, _, _)
\* The Sets of an assignment undone when one of them fails.
SetAll_Atomic(names, vals, i, s, m) ==
    IF i > Len(names) THEN R(vals, NoErr, m)
    ELSE LET r == Set(m, s, names[i], vals[i])
             rest == SetAll_Atomic(names, vals, i + 1, s, r.m)
         IN  IF IsErr(r.err) THEN R(<<>>, r.err, m)
             ELSE IF IsErr(rest.err) THEN R(<<>>, rest.err, m)
             ELSE rest

RECURSIVE SetAll(_, _, _, _, _)
SetAll(names, vals, i, s, m) ==
    IF i > Len(names) THEN R(vals, NoErr, m)
    ELSE LET r == Set(m, s, names[i], vals[i])
         IN  IF IsErr(r.err) THEN R(<<>>, r.err, r.m)
             ELSE SetAll(names, vals, i + 1, s, r.m)

\* AssignValues without the comparison of the counts: the names that have a
\* value at their position are set.
AssignValues_NoCount(n, s, m) ==
    LET r == EvalNode(n.ch[2], s, m)
        k == IF Len(varNames(n)) < Len(r.vals) THEN Len(varNames(n)) ELSE Len(r.vals)
    IN  IF IsErr(r.err) THEN R(<<>>, r.err, r.m)
        ELSE SetAll(SubSeq(varNames(n), 1, k), SubSeq(r.vals, 1, k), 1, s, r.m)

AssignValues(n, s, m) ==
    LET r == EvalNode(n.ch[2], s, m)
    IN  IF IsErr(r.err) THEN R(<<>>, r.err, r.m)
        ELSE IF Len(varNames(n)) # Len(r.vals)
        THEN R(<<>>, Err("count of variables on left does not match number of results on right side", n.pos), r.m)
        ELSE SetAll(varNames(n), r.vals, 1, s, r.m)

RECURSIVE LoopOperator_ContinueEnds(_, _, _)
\* The loop that a continue signal ends as a break signal does.
LoopOperator_ContinueEnds(n, s, m) ==
    IF m.fuel = 0 THEN R(<<>>, Hang(n.pos), m)
    ELSE
    LET condVal == StandardSingleEval(n, n.ch[1], s, m)
        bodyResults == EvalNode(n.ch[2], s, condVal.m)
    IN  IF IsErr(condVal.err) THEN R(<<condVal.val>>, condVal.err, condVal.m)
        ELSE IF ~IsTruthy(condVal.val) THEN R(<<condVal.val>>, NoErr, condVal.m)
        ELSE IF IsErr(bodyResults.err) THEN bodyResults
        ELSE IF IsBreakValue(bodyResults.vals) \/ IsContinueValue(bodyResults.vals)
        THEN R(WrappedValues(bodyResults.vals), NoErr, bodyResults.m)
        ELSE IF IsReturnValue(bodyResults.vals) THEN bodyResults
        ELSE LoopOperator_ContinueEnds(n, s, [bodyResults.m EXCEPT !.fuel = @ - 1])

RECURSIVE LoopOperator(_, _, _)
\* One turn of the for loop; the evaluator is entered once and turns until
\* the condition, an error, a break or a return ends it.
LoopOperator(n, s, m) ==
    IF m.fuel = 0 THEN R(<<>>, Hang(n.pos), m)
    ELSE
    LET condVal == StandardSingleEval(n, n.ch[1], s, m)
        bodyResults == EvalNode(n.ch[2], s, condVal.m)
    IN  IF IsErr(condVal.err) THEN R(<<condVal.val>>, condVal.err, condVal.m)
        ELSE IF ~IsTruthy(condVal.val) THEN R(<<condVal.val>>, NoErr, condVal.m)
        ELSE IF IsErr(bodyResults.err) THEN bodyResults
        ELSE IF IsBreakValue(bodyResults.vals)
        THEN R(WrappedValues(bodyResults.vals), NoErr, bodyResults.m)
        ELSE IF IsReturnValue(bodyResults.vals) THEN bodyResults
        ELSE LoopOperator(n, s, [bodyResults.m EXCEPT !.fuel = @ - 1])

ReturnOperator(n, s, m) ==
    LET result == IF Len(n.ch) > 0 THEN EvalNode(n.ch[1], s, m)
                  ELSE R(<<>>, NoErr, m)
    IN  R(ReturnValue(result.vals), result.err, result.m)

RECURSIVE ConditionalFrom_FallsThrough(_, _, _, _)
\* The pass that goes on to the next condition after the block of a truthy
\* one.
ConditionalFrom_FallsThrough(n, i, s, m) ==
    LET results == EvalNode(n.ch[i], s, m)
        oneVal == SingleValue(n, results.vals)
        block == EvalNode(n.ch[i + 1], s, results.m)
    IN  IF i >= Len(n.ch) \/ IsErr(results.err) THEN results
        ELSE IF IsErr(oneVal.err) THEN R(results.vals, oneVal.err, results.m)
        ELSE IF IsTruthy(oneVal.val)
        THEN IF i + 2 > Len(n.ch) \/ IsErr(block.err) THEN block
             ELSE ConditionalFrom_FallsThrough(n, i + 2, s, block.m)
        ELSE IF i + 2 > Len(n.ch) THEN R(results.vals, NoErr, results.m)
        ELSE ConditionalFrom_FallsThrough(n, i + 2, s, results.m)

RECURSIVE ConditionalFrom_NoResult(_, _, _, _)
\* The pass that returns an empty list when no condition is truthy and
\* there is no else.
ConditionalFrom_NoResult(n, i, s, m) ==
    LET results == EvalNode(n.ch[i], s, m)
        oneVal == SingleValue(n, results.vals)
    IN  IF i >= Len(n.ch) \/ IsErr(results.err) THEN results
        ELSE IF IsErr(oneVal.err) THEN R(results.vals, oneVal.err, results.m)
        ELSE IF IsTruthy(oneVal.val) THEN EvalNode(n.ch[i + 1], s, results.m)
        ELSE IF i + 2 > Len(n.ch) THEN R(<<>>, NoErr, results.m)
        ELSE ConditionalFrom_NoResult(n, i + 2, s, results.m)

RECURSIVE ConditionalFrom(_, _, _, _)
\* The pass of the loop over evals at index i (from 1).
ConditionalFrom(n, i, s, m) ==
    LET results == EvalNode(n.ch[i], s, m)
        oneVal == SingleValue(n, results.vals)
    IN  IF i >= Len(n.ch) \/ IsErr(results.err) THEN results
        ELSE IF IsErr(oneVal.err) THEN R(results.vals, oneVal.err, results.m)
        ELSE IF IsTruthy(oneVal.val) THEN EvalNode(n.ch[i + 1], s, results.m)
        ELSE IF i + 2 > Len(n.ch) THEN R(results.vals, NoErr, results.m)
        ELSE ConditionalFrom(n, i + 2, s, results.m)

ConditionalOperator(n, s, m) ==
    IF Len(n.ch) = 0 THEN R(<<>>, NoErr, m) ELSE ConditionalFrom(n, 1, s, m)

RECURSIVE ArgsFrom(_, _, _, _, _)
\* The paramEvals loop of FuncApplication over the children after the first.
ArgsFrom(n, i, s, m, values) ==
    IF i > Len(n.ch) THEN R(values, NoErr, m)
    ELSE LET val == EvalNode(n.ch[i], s, m)
         IN  IF IsErr(val.err) THEN R(<<>>, val.err, val.m)
             ELSE ArgsFrom(n, i + 1, s, val.m, values \o val.vals)

RECURSIVE CopyCaptured_ByValue(_, _, _, _)
\* The captured values copied into cells of the call's own.
CopyCaptured_ByValue(m, scope, captured, names) ==
    IF names = <<>> THEN m
    ELSE CopyCaptured_ByValue(
             BindFresh(m, scope, Head(names),
                       m.cells[m.scopes[captured].values[Head(names)]]),
             scope, captured, Tail(names))

RECURSIVE CopyCaptured(_, _, _, _)
CopyCaptured(m, scope, captured, names) ==
    IF names = <<>> THEN m
    ELSE CopyCaptured(SetRef(m, scope, Head(names),
                             m.scopes[captured].values[Head(names)]),
                      scope, captured, Tail(names))

\* No local is set before the body runs.
SetLocals_Nothing(m, scope, locals) == m

RECURSIVE SetLocals(_, _, _)
\* scope.Set(l, nil) for each local; the error of Set is not looked at.
SetLocals(m, scope, locals) ==
    IF locals = <<>> THEN m
    ELSE SetLocals(Set(m, scope, Head(locals), NilValue).m, scope, Tail(locals))

RECURSIVE SetParameters(_, _, _, _, _)
\* scope.Set(p, values[i]) for each parameter; the error is not looked at.
SetParameters(m, scope, parameters, values, i) ==
    IF i > Len(parameters) THEN m
    ELSE SetParameters(Set(m, scope, parameters[i], values[i]).m,
                       scope, parameters, values, i + 1)

FuncApplication(n, s, m) ==
    LET fr == EvalNode(n.ch[1], s, m)
    IN  IF IsErr(fr.err)
        THEN R(<<>>, Err(IF IsPanic(fr.err) \/ IsHang(fr.err) THEN fr.err.msg
                         ELSE "unable to resolve function", n.pos), fr.m)
        ELSE IF Len(fr.vals) # 1
        THEN R(<<>>, Err("cannot apply multiple values as a function", n.pos), fr.m)
        ELSE IF fr.vals[1].t # "func"
        THEN R(<<>>, Err("cannot apply a non-function", n.pos), fr.m)
        ELSE
        LET f == fr.vals[1]
            args == ArgsFrom(n, 2, s, fr.m, <<>>)
        IN  IF IsErr(args.err) THEN R(<<>>, args.err, args.m)
            ELSE IF Len(f.parameters) # Len(args.vals)
            THEN R(<<>>, Err("number of arguments does not match number of parameters", n.pos), args.m)
            ELSE IF args.m.fuel = 0 THEN R(<<>>, Hang(n.pos), args.m)
            ELSE
            LET sc == NewScope([args.m EXCEPT !.fuel = @ - 1], s)
                m1 == CopyCaptured(sc.m, sc.id, f.captured,
                                   SetToSeq(DOMAIN sc.m.scopes[f.captured].values))
                m2 == SetLocals(m1, sc.id, f.locals)
                m3 == SetParameters(m2, sc.id, f.parameters, args.vals, 1)
                result == EvalNode(f.body, sc.id, m3)
            IN  IF IsControlValue(result.vals)
                THEN R(WrappedValues(result.vals), result.err, result.m)
                ELSE result

\* No reference is captured: the names are left to the scope of the call.
CaptureFrom_Nothing(n, free, s, m, captured) == [m |-> m, err |-> NoErr]

RECURSIVE CaptureFrom_SkipsUnbound(_, _, _, _, _)
\* The loop over the free variables that leaves out the names it cannot
\* resolve.
CaptureFrom_SkipsUnbound(n, free, s, m, captured) ==
    IF free = <<>> THEN [m |-> m, err |-> NoErr]
    ELSE LET r == Reference(m, s, Head(free))
         IN  IF IsErr(r.err)
             THEN CaptureFrom_SkipsUnbound(n, Tail(free), s, m, captured)
             ELSE CaptureFrom_SkipsUnbound(n, Tail(free), s,
                      SetRef(m, captured, Head(free), r.ref), captured)

RECURSIVE CaptureFrom(_, _, _, _, _)
\* The loop of FuncDefinition over the free variables: a reference to each
\* is looked up from the defining scope and put in the captured scope.
CaptureFrom(n, free, s, m, captured) ==
    IF free = <<>> THEN [m |-> m, err |-> NoErr]
    ELSE LET r == Reference(m, s, Head(free))
         IN  IF IsErr(r.err)
             THEN [m |-> m, err |-> Err("unable to capture free variable", n.pos)]
             ELSE CaptureFrom(n, Tail(free), s,
                              SetRef(m, captured, Head(free), r.ref), captured)

\* The body is compiled when the definition is evaluated, not when the
\* definition is compiled.
FuncDefinition(n, s, m) ==
    IF n.analysis = NoAnalysis \/ ~n.analysis.hasBody
    THEN R(<<>>, Err("panic: nil pointer dereference", n.pos), m)
    ELSE
    LET bodyEval == Compile(n.ch[3])
        mc == [m EXCEPT !.compiled = @ \o bodyEval.seen]
        sc == NewScope(mc, s)
        cap == CaptureFrom(n, FreeVariables(n.analysis), s, sc.m, sc.id)
    IN  IF IsErr(bodyEval.err) THEN R(<<>>, bodyEval.err, mc)
        ELSE IF IsErr(cap.err) THEN R(<<>>, cap.err, cap.m)
        ELSE R(<<FuncV(n.analysis.parameters, n.analysis.channels,
                       SetToSeq(n.analysis.locals), n.ch[3], sc.id)>>,
               NoErr, cap.m)

\* The evaluator compiled from node n, run in scope s: the producer that
\* nodeEvaluator holds for the node's token.  The machine's log gets the
\* position of every node whose evaluator is entered.
EvalNode(n, s, m0) ==
    LET m == [m0 EXCEPT !.log = Append(@, n.pos)]
    IN  CASE n.tok = "IDENT" -> VariableLookup(n, s, m)
          [] n.tok = "ASSIGN" -> AssignValues(n, s, m)
          [] n.tok = "INT" -> IntegerLiteral(n, s, m)
          [] n.tok = "FLOAT" -> FloatLiteral(n, s, m)
          [] n.tok = "STRING" -> StringLiteral(n, s, m)
          [] n.tok = "PLUS" -> AdditionOperator(n, s, m)
          [] n.tok = "MINUS" -> SubtractionOperator(n, s, m)
          [] n.tok = "MULT" -> MultiplicationOperator(n, s, m)
          [] n.tok = "DIV" -> DivisionOperator(n, s, m)
          [] n.tok = "MODULO" -> ModuloOperation(n, s, m)
          [] n.tok \in {"COMMA", "LPAREN"} -> MultiValueOperator(n, s, m)
          [] n.tok = "TRUE" -> TrueLiteral(n, s, m)
          [] n.tok = "FALSE" -> FalseLiteral(n, s, m)
          [] n.tok = "NIL" -> NilLiteral(n, s, m)
          [] n.tok = "FUNC" -> FuncDefinition(n, s, m)
          [] n.tok = "FUNCAPPLY" -> FuncApplication(n, s, m)
          [] n.tok = "STMTS" -> StatementsEvaluator(n, s, m)
          [] n.tok = "EXTERN" -> Noop(n, s, m)
          [] n.tok \in {"EQUAL", "NOT_EQUAL", "LESS", "LESS_EQUAL", "GRTR",
                        "GRTR_EQUAL"} -> ComparisonOperator(n, s, m)
          [] n.tok = "NOT" -> NotOperator(n, s, m)
          [] n.tok = "LOG_AND" -> LogicalAndOperator(n, s, m)
          [] n.tok = "LOG_OR" -> LogicialOrOperator(n, s, m)
          [] n.tok = "WHILE" -> LoopOperator(n, s, m)
          [] n.tok = "IF" -> ConditionalOperator(n, s, m)
          [] n.tok = "RETURN" -> ReturnOperator(n, s, m)
          [] n.tok = "BREAK" -> BreakOperator(n, s, m)
          [] n.tok = "CONTINUE" -> ContinueOperator(n, s, m)

----------------------------------------------------------------------------
(* Inputs.  The parser is outside the model: each input is the tree the    *)
(* parser builds for the source text in the comment beside it.             *)

Id(x) == N("IDENT", x, <<>>)
IntL(l) == N("INT", l, <<>>)
FltL(l) == N("FLOAT", l, <<>>)
StrL(l) == N("STRING", l, <<>>)
True == N("TRUE", "true", <<>>)
False == N("FALSE", "false", <<>>)
Nil == N("NIL", "nil", <<>>)
Asg(x, e) == N("ASSIGN", ":=", <<Id(x), e>>)
Asg2(x, y, e) == N("ASSIGN", ":=", <<N("COMMA", ",", <<Id(x), Id(y)>>), e>>)
Bin(tok, a, b) == N(tok, tok, <<a, b>>)
Stmts(ss) == N("STMTS", "stmts", ss)
Func0(body) ==
    N("FUNC", "func", <<N("LPAREN", "(", <<>>), N("LSQR", "[", <<>>), body>>)
\* func(p){ body }: the parenthesis around one parameter is raised away.
Func1Of(p, body) == N("FUNC", "func", <<p, N("LSQR", "[", <<>>), body>>)
Func1(a, body) == Func1Of(Id(a), body)
App0(f) == N("FUNCAPPLY", "f-apply", <<Id(f)>>)
App1(f, a) == N("FUNCAPPLY", "f-apply", <<Id(f), a>>)
Ret(e) == N("RETURN", "return", <<e>>)
If(c, t) == N("IF", "if", <<c, t>>)
While(c, b) == N("WHILE", "while", <<c, b>>)
Break == N("BREAK", "break", <<>>)
Extern(x) == N("EXTERN", "extern", <<Id(x)>>)
QAsg(x, e) == N("QASSIGN", "?=", <<Id(x), e>>)

\* f := func(){ return x }
DefReadX == Asg("f", Func0(Ret(Id("x"))))
\* f := func(){ x := x + 1; return x }
DefBumpLocal ==
    Asg("f", Func0(Stmts(<<Asg("x", Bin("PLUS", Id("x"), IntL("1"))), Ret(Id("x"))>>)))
\* f := func(){ extern x; x := x + 1; return x }
DefBumpExtern ==
    Asg("f", Func0(Stmts(<<Extern("x"), Asg("x", Bin("PLUS", Id("x"), IntL("1"))),
                           Ret(Id("x"))>>)))
\* while true { i := i + 1; if i == 2 { return i, 7 }; t := i }
LoopWithReturn ==
    While(True,
          Stmts(<<Asg("i", Bin("PLUS", Id("i"), IntL("1"))),
                  If(Bin("EQUAL", Id("i"), IntL("2")),
                     Ret(N("COMMA", ",", <<Id("i"), IntL("7")>>))),
                  Asg("t", Id("i"))>>))
\* f := func(){ i := 0; while true { ... }; return 0 }
DefEarlyReturn ==
    Asg("f", Func0(Stmts(<<Asg("i", IntL("0")), LoopWithReturn, Ret(IntL("0"))>>)))
\* make := func(n){ return func(){ return n } }
DefMake == Asg("make", Func1("n", Ret(Func0(Ret(Id("n"))))))
\* the right operand of the logical operators: (s := 1)
SideEffect == Asg("s", IntL("1"))

\* x := nil; f := func(){ return x }; x := 5
CaptureNilThenSet == Stmts(<<Asg("x", Nil), DefReadX, Asg("x", IntL("5"))>>)
\* x := 1; f := func(){ return x }; x := 5
CaptureIntThenSet == Stmts(<<Asg("x", IntL("1")), DefReadX, Asg("x", IntL("5"))>>)
\* f()
CallF == App0("f")
\* x := 1; f := func(){ x := x + 1; return x }
BumpLocal == Stmts(<<Asg("x", IntL("1")), DefBumpLocal>>)
\* x := 1; f := func(){ extern x; x := x + 1; return x }
BumpExtern == Stmts(<<Asg("x", IntL("1")), DefBumpExtern>>)
\* f(), f()
CallFTwice == N("COMMA", ",", <<App0("f"), App0("f")>>)
\* a, b := f()
AssignFromF == Asg2("a", "b", App0("f"))
\* x && (s := 1)     x || (s := 1)
AndX == Bin("LOG_AND", Id("x"), SideEffect)
OrX == Bin("LOG_OR", Id("x"), SideEffect)
\* false && (s := 1)     "a" && (s := 1)
AndFalse == Bin("LOG_AND", False, SideEffect)
AndString == Bin("LOG_AND", StrL("a"), SideEffect)
\* 0 || (s := 1)     nil || (s := 1)
OrZero == Bin("LOG_OR", IntL("0"), SideEffect)
OrNil == Bin("LOG_OR", Nil, SideEffect)
\* make := func(n){ return func(){ return n } }; f := make(arg)
MakeF(arg) == Stmts(<<DefMake, Asg("f", App1("make", arg))>>)
\* g := make(7); f()
MakeGCallF == Stmts(<<Asg("g", App1("make", IntL("7"))), App0("f")>>)
\* v := while true { break }
WhileBreak == Asg("v", While(True, Break))
\* v := while x { x := false }
WhileToEnd == Asg("v", While(Id("x"), Asg("x", False)))
\* k := 1; h := func(){ z ?= 1 }
UnknownInFunc ==
    Stmts(<<Asg("k", IntL("1")), Asg("h", Func0(QAsg("z", IntL("1"))))>>)
\* k := 1; z ?= 1
UnknownAtTop == Stmts(<<Asg("k", IntL("1")), QAsg("z", IntL("1"))>>)
\* 1 / 0     1 % 0     1.0 / 0.0     x / 0
IntDivZero == Bin("DIV", IntL("1"), IntL("0"))
IntModZero == Bin("MODULO", IntL("1"), IntL("0"))
FloatDivZero == Bin("DIV", FltL("1.0"), FltL("0.0"))
XDivZero == Bin("DIV", Id("x"), IntL("0"))
\* c := if true { return 1 }
AssignReturn == Asg("c", If(True, Ret(IntL("1"))))

\* The inputs about closures, logical operators, loops and division.
ClosurePrograms == <<
    Asg("x", IntL("1")),                                \* x := 1
    Asg("x", Nil),                                      \* x := nil
    Asg("x", False),                                    \* x := false
    Asg("x", True),                                     \* x := true
    Asg("x", StrL("a")),                                \* x := "a"
    Id("x"),                                            \* x
    CaptureNilThenSet, CaptureIntThenSet, CallF,
    BumpLocal, BumpExtern, CallFTwice,
    DefEarlyReturn, AssignFromF,
    AndX, OrX, AndFalse, AndString, OrZero, OrNil,
    MakeF(IntL("5")), MakeF(StrL("a")), MakeF(True), MakeF(Nil), MakeGCallF,
    WhileBreak, WhileToEnd,
    UnknownInFunc, UnknownAtTop,
    Bin("DIV", IntL("7"), IntL("2")),                   \* 7 / 2
    IntDivZero, IntModZero, FloatDivZero, XDivZero,
    AssignReturn,
    Asg("w", While(True, Stmts(<<>>)))                  \* w := while true { }
>>

\* f := func(1){ return 2 }
BadParameter == Asg("f", Func1Of(IntL("1"), Ret(IntL("2"))))
\* 1 := 2
BadLeftHandSide == N("ASSIGN", ":=", <<IntL("1"), IntL("2")>>)
\* k := 1; h := func(){ 1 := 2 }
BadLeftHandSideInFunc ==
    Stmts(<<Asg("k", IntL("1")), Asg("h", Func0(BadLeftHandSide))>>)

\* y := 1; g := func(){ extern y; y := y + 1; return y }
ExternThenAssign ==
    Stmts(<<Asg("y", IntL("1")),
            Asg("g", Func0(Stmts(<<Extern("y"),
                                   Asg("y", Bin("PLUS", Id("y"), IntL("1"))),
                                   Ret(Id("y"))>>)))>>)
\* y := 1; g := func(){ y := y + 1; extern y; return y }
AssignThenExtern ==
    Stmts(<<Asg("y", IntL("1")),
            Asg("g", Func0(Stmts(<<Asg("y", Bin("PLUS", Id("y"), IntL("1"))),
                                   Extern("y"),
                                   Ret(Id("y"))>>)))>>)
\* g(), g()
CallGTwice == N("COMMA", ",", <<App0("g"), App0("g")>>)

Comma(a, b) == N("COMMA", ",", <<a, b>>)
\* a, b := 1, 2     a, b := 5, 7     a, b := "s", 7
AssignOneTwo == Asg2("a", "b", Comma(IntL("1"), IntL("2")))
AssignFiveSeven == Asg2("a", "b", Comma(IntL("5"), IntL("7")))
AssignStringSeven == Asg2("a", "b", Comma(StrL("s"), IntL("7")))
\* a, b := 5     a := 5, 7     a, b := 5, 7, 3
AssignTwoFromOne == Asg2("a", "b", IntL("5"))
AssignOneFromTwo == Asg("a", Comma(IntL("5"), IntL("7")))
AssignTwoFromThree == Asg2("a", "b", Comma(Comma(IntL("5"), IntL("7")), IntL("3")))
\* pair := func(){ return 5, 7 }; a := pair()
AssignOneFromPair ==
    Stmts(<<Asg("pair", Func0(Ret(Comma(IntL("5"), IntL("7"))))),
            Asg("a", App0("pair"))>>)
\* pair := func(){ return 5, 7 }; a, b := pair()
AssignTwoFromPair ==
    Stmts(<<Asg("pair", Func0(Ret(Comma(IntL("5"), IntL("7"))))),
            Asg2("a", "b", App0("pair"))>>)

\* stop := func(){ break }
DefStop == Asg("stop", Func0(Break))
\* stop()
CallStop == App0("stop")
\* stop := func(){ break }; n := 0; while n < 2 { n := n + 1; stop() }; n
BreakThroughCall ==
    Stmts(<<DefStop, Asg("n", IntL("0")),
            While(Bin("LESS", Id("n"), IntL("2")),
                  Stmts(<<Asg("n", Bin("PLUS", Id("n"), IntL("1"))), CallStop>>)),
            Id("n")>>)

\* m := 1; m + "s"; w := 2
ErrorInMiddle ==
    Stmts(<<Asg("m", IntL("1")), Bin("PLUS", Id("m"), StrL("s")),
            Asg("w", IntL("2"))>>)
\* m := 1; zz; w := 2
UndefinedInMiddle ==
    Stmts(<<Asg("m", IntL("1")), Id("zz"), Asg("w", IntL("2"))>>)

\* 42 && true     true && 42     false && 42     true && false
FortyTwoAndTrue == Bin("LOG_AND", IntL("42"), True)
TrueAndFortyTwo == Bin("LOG_AND", True, IntL("42"))
FalseAndFortyTwo == Bin("LOG_AND", False, IntL("42"))
TrueAndFalse == Bin("LOG_AND", True, False)

\* t := 5; p := "g"; h := func(p){ r := t; t := p; p := 9; return r, t, p }
DefH ==
    Stmts(<<Asg("t", IntL("5")), Asg("p", StrL("g")),
            Asg("h", Func1("p",
                Stmts(<<Asg("r", Id("t")), Asg("t", Id("p")), Asg("p", IntL("9")),
                        Ret(Comma(Comma(Id("r"), Id("t")), Id("p")))>>)))>>)
\* h(3)     h(3), h(2)
CallH == App1("h", IntL("3"))
CallHTwice == Comma(App1("h", IntL("3")), App1("h", IntL("2")))
\* outer := func(){ t := 1; p := 2; h(3); return t, p }; outer()
CallHFromOuter ==
    Stmts(<<Asg("outer", Func0(Stmts(<<Asg("t", IntL("1")), Asg("p", IntL("2")),
                                       App1("h", IntL("3")),
                                       Ret(Comma(Id("t"), Id("p")))>>))),
            App0("outer")>>)

\* The inputs about malformed trees, assignment, comparison and the scopes
\* of function applications.
ScopePrograms == <<
    BadParameter, BadLeftHandSide, BadLeftHandSideInFunc,
    ExternThenAssign, AssignThenExtern, CallGTwice,
    AssignOneTwo, AssignFiveSeven, AssignStringSeven,
    AssignTwoFromOne, AssignOneFromTwo, AssignTwoFromThree,
    AssignOneFromPair, AssignTwoFromPair,
    DefStop, CallStop, BreakThroughCall,
    ErrorInMiddle, UndefinedInMiddle, Id("m"),
    FortyTwoAndTrue, TrueAndFortyTwo, FalseAndFortyTwo, TrueAndFalse,
    DefH, CallH, CallHTwice, CallHFromOuter
>>

IfN(children) == N("IF", "if", children)
Continue == N("CONTINUE", "continue", <<>>)
Plus1(x) == Asg(x, Bin("PLUS", Id(x), IntL("1")))

\* j := 0; while j < 2 { j := j + 1; lit := func(){ return j } }
LiteralInLoop ==
    Stmts(<<Asg("j", IntL("0")),
            While(Bin("LESS", Id("j"), IntL("2")),
                  Stmts(<<Plus1("j"), Asg("lit", Func0(Ret(Id("j"))))>>))>>)
\* mk := func(){ return func(){ return 1 } }; mk(), mk()
LiteralInFunction ==
    Stmts(<<Asg("mk", Func0(Ret(Func0(Ret(IntL("1")))))),
            Comma(App0("mk"), App0("mk"))>>)
\* lit := func(){ return 1 }; lit()
LiteralOnce == Stmts(<<Asg("lit", Func0(Ret(IntL("1")))), App0("lit")>>)

\* outer := func(){ return func(){ return q } }
DefOuter == Asg("outer", Func0(Ret(Func0(Ret(Id("q"))))))
\* caller := func(){ q := 7; g := outer(); return g() }
DefCaller ==
    Asg("caller", Func0(Stmts(<<Asg("q", IntL("7")), Asg("g", App0("outer")),
                                Ret(App0("g"))>>)))
\* outer := ...; caller := ...
DefOuterCaller == Stmts(<<DefOuter, DefCaller>>)
\* q := 1; outer := ...; caller := ...
QThenOuterCaller == Stmts(<<Asg("q", IntL("1")), DefOuter, DefCaller>>)
\* caller()
CallCaller == App0("caller")
\* g := outer(); g()
CallOuter == Stmts(<<Asg("g", App0("outer")), App0("g")>>)

\* n := 0; k := 0; while n < 2 { n := n + 1; continue; k := k + 1 }; n, k
ContinueDirect ==
    Stmts(<<Asg("n", IntL("0")), Asg("k", IntL("0")),
            While(Bin("LESS", Id("n"), IntL("2")),
                  Stmts(<<Plus1("n"), Continue, Plus1("k")>>)),
            Comma(Id("n"), Id("k"))>>)
\* n := 0; k := 0;
\* while n < 3 { n := n + 1; if n == 2 { k := k + 5; continue; k := k + 7 }; k := k + 1 };
\* n, k
ContinueNested ==
    Stmts(<<Asg("n", IntL("0")), Asg("k", IntL("0")),
            While(Bin("LESS", Id("n"), IntL("3")),
                  Stmts(<<Plus1("n"),
                          If(Bin("EQUAL", Id("n"), IntL("2")),
                             Stmts(<<Asg("k", Bin("PLUS", Id("k"), IntL("5"))),
                                     Continue,
                                     Asg("k", Bin("PLUS", Id("k"), IntL("7")))>>)),
                          Plus1("k")>>)),
            Comma(Id("n"), Id("k"))>>)
\* n := 0; v := while n < 2 { n := n + 1; if true { continue } }
ContinueLast ==
    Stmts(<<Asg("n", IntL("0")),
            Asg("v", While(Bin("LESS", Id("n"), IntL("2")),
                           Stmts(<<Plus1("n"), If(True, Continue)>>)))>>)

\* rec := func(){ return rec() }
SelfRecursive == Asg("rec", Func0(Ret(App0("rec"))))
\* rec := nil; rec := func(){ return rec() }; rec
BoundThenRecursive == Stmts(<<Asg("rec", Nil), SelfRecursive, Id("rec")>>)
\* late := func(){ return lv }     lv := 1
LateBinding == Asg("late", Func0(Ret(Id("lv"))))
\* ext := func(){ extern lv; return 1 }
ExternUnbound == Asg("ext", Func0(Stmts(<<Extern("lv"), Ret(IntL("1"))>>)))
\* bad := func(){ e ?= lv }
UnboundAndUnknown == Asg("bad", Func0(QAsg("e", Id("lv"))))

\* c, d := 1, 2     c, d := 7, "s"     c, d := "s", 7     c, d := "s", "t"
AssignCD(l, r) == Asg2("c", "d", Comma(l, r))

\* u := if false { 1 }     u := if nil { 1 }
IfFalse == Asg("u", If(False, IntL("1")))
IfNil == Asg("u", If(Nil, IntL("1")))
\* u := if false { 1 } else if nil { 2 }
IfFalseElseIfNil == Asg("u", IfN(<<False, IntL("1"), Nil, IntL("2")>>))
\* u := if false { 1 } else { 2 }     u := if 0 { 1 }
IfFalseElse == Asg("u", IfN(<<False, IntL("1"), IntL("2")>>))
IfZero == Asg("u", If(IntL("0"), IntL("1")))

\* deep := func(){ return func(){ extern ev; av := ev; return av } }
NestedExternAssign ==
    Asg("deep", Func0(Ret(Func0(Stmts(<<Extern("ev"), Asg("av", Id("ev")),
                                        Ret(Id("av"))>>)))))

\* The inputs about function literals, the scope of a call, continue,
\* assignment to two names and conditionals without an else.
LexicalPrograms == <<
    LiteralInLoop, LiteralInFunction, LiteralOnce,
    DefOuterCaller, QThenOuterCaller, CallCaller, CallOuter,
    ContinueDirect, ContinueNested, ContinueLast,
    SelfRecursive, BoundThenRecursive, LateBinding, Asg("lv", IntL("1")),
    ExternUnbound, UnboundAndUnknown,
    AssignCD(IntL("1"), IntL("2")), AssignCD(IntL("7"), StrL("s")),
    AssignCD(StrL("s"), IntL("7")), AssignCD(StrL("s"), StrL("t")),
    Asg("d", IntL("8")),
    IfFalse, IfNil, IfFalseElseIfNil, IfFalseElse, IfZero,
    NestedExternAssign
>>

RawPrograms == ClosurePrograms \o ScopePrograms \o LexicalPrograms

\* The tree of input p, every node given its position in that input.
Program(p) == Label(RawPrograms[p], <<p>>)
Index(tree) == CHOOSE p \in DOMAIN RawPrograms : RawPrograms[p] = tree

----------------------------------------------------------------------------
(* The REPL (repl/repl.go): one global scope for the whole session, every  *)
(* input analysed, compiled and evaluated against it.                      *)

VARIABLES
    cells,      \* the heap of value cells
    scopes,     \* the heap of scopes; scope 1 is topContext
    inputs,     \* the inputs read so far, as indexes into RawPrograms
    vals, err,  \* what the last Evaluate returned
    log,        \* the nodes whose evaluators the last Evaluate entered
    compiled,   \* the nodes the last Evaluate called Node.Evaluator on
    status,     \* "running", or how the process ended
    call        \* the last call made on the Variables API directly

vars == <<cells, scopes, inputs, vals, err, log, compiled, status, call>>

topContext == 1
NoCall == [op |-> "none"]

Init ==
    /\ cells = <<>>
    /\ scopes = <<GlobalScope>>
    /\ inputs = <<>>
    /\ vals = <<>>
    /\ err = NoErr
    /\ log = <<>>
    /\ compiled = <<>>
    /\ status = "running"
    /\ call = NoCall

Machine(c) ==
    [cells |-> cells, scopes |-> scopes, log |-> <<>>, compiled |-> c,
     fuel |-> MaxFuel]

\* repl.Evaluate on input p, and what Start does with the outcome.  A panic
\* ends the process; an evaluation that does not return ends the session.
Evaluate(p) ==
    LET ast == Analyze(Program(p))
        eval == Compile(ast.n)
        r == EvalNode(ast.n, topContext, Machine(eval.seen))
    IN  /\ status = "running"
        /\ Len(inputs) < MaxSteps
        /\ inputs' = Append(inputs, p)
        /\ call' = call
        /\ IF ast.col.panicked
           THEN /\ status' = "panicked"
                /\ vals' = <<>> /\ err' = Err("panic: index out of range", <<p>>)
                /\ log' = <<>> /\ compiled' = <<>>
                /\ UNCHANGED <<cells, scopes>>
           ELSE IF IsErr(ast.err)
           THEN /\ status' = "running"
                /\ vals' = <<>> /\ err' = ast.err
                /\ log' = <<>> /\ compiled' = <<>>
                /\ UNCHANGED <<cells, scopes>>
           ELSE IF IsErr(eval.err)
           THEN /\ status' = "running"
                /\ vals' = <<>> /\ err' = eval.err
                /\ log' = <<>> /\ compiled' = eval.seen
                /\ UNCHANGED <<cells, scopes>>
           ELSE /\ status' = IF IsPanic(r.err) THEN "panicked"
                             ELSE IF IsHang(r.err) THEN "hung" ELSE "running"
                /\ vals' = r.vals /\ err' = r.err
                /\ log' = r.m.log /\ compiled' = r.m.compiled
                /\ cells' = r.m.cells /\ scopes' = r.m.scopes

Next == \E p \in DOMAIN ClosurePrograms : Evaluate(p)

Spec == Init /\ [][Next]_vars

\* A session over the second family of inputs.
NextScopes ==
    \E p \in Len(ClosurePrograms) + 1 .. Len(ClosurePrograms) + Len(ScopePrograms) :
        Evaluate(p)

SpecScopes == Init /\ [][NextScopes]_vars

\* A session over the third family of inputs.
NextLexical ==
    \E p \in Len(ClosurePrograms) + Len(ScopePrograms) + 1 .. Len(RawPrograms) :
        Evaluate(p)

SpecLexical == Init /\ [][NextLexical]_vars

----------------------------------------------------------------------------
(* The Variables API on its own (compile/variables.go): any caller may     *)
(* create scopes, set values and bind references, in any order.            *)

\* The number of calls made on the API in one behaviour.
MaxCalls == 4

ApiNames == {"x"}
ApiValues == {NilValue, IntV(1), IntV(2), StrV("a")}
Heap == [cells |-> cells, scopes |-> scopes]
Calls == IF call = NoCall THEN 0 ELSE call.n

CallNewScope(parent) ==
    LET r == NewScope(Heap, parent)
    IN  /\ Calls < MaxCalls
        /\ scopes' = r.m.scopes
        /\ call' = [op |-> "NewScope", n |-> Calls + 1]
        /\ UNCHANGED <<cells, inputs, vals, err, log, compiled, status>>

CallSet(s, name, val) ==
    LET r == Set(Heap, s, name, val)
    IN  /\ Calls < MaxCalls
        /\ cells' = r.m.cells
        /\ scopes' = r.m.scopes
        /\ call' = [op |-> "Set", n |-> Calls + 1, s |-> s, name |-> name,
                    val |-> val, ret |-> r.val, err |-> r.err]
        /\ UNCHANGED <<inputs, vals, err, log, compiled, status>>

CallSetRef(s, name, ref) ==
    /\ Calls < MaxCalls
    /\ scopes' = SetRef(Heap, s, name, ref).scopes
    /\ call' = [op |-> "SetRef", n |-> Calls + 1]
    /\ UNCHANGED <<cells, inputs, vals, err, log, compiled, status>>

NextVars ==
    \/ \E parent \in DOMAIN scopes : CallNewScope(parent)
    \/ \E s \in DOMAIN scopes, name \in ApiNames, val \in ApiValues :
           CallSet(s, name, val)
    \/ \E s \in DOMAIN scopes, name \in ApiNames, ref \in DOMAIN cells :
           CallSetRef(s, name, ref)

SpecVars == Init /\ [][NextVars]_vars

----------------------------------------------------------------------------
(* The scope analysis on its own (compile/node.go): FreeVariables on any   *)
(* Analysis, and ScopeAnalysis on the tree of any input.                   *)

AnalysisNames == {"x", "y"}
NameLists == {<<>>, <<"x">>, <<"y">>, <<"x", "y">>}
\* The parent pointer of an Analysis: none, or the Analysis of an enclosing
\* function that binds every name.
ParentAnalyses ==
    {NoAnalysis,
     [identifiers |-> {}, locals |-> {"y"}, externs |-> {},
      parameters |-> <<"x">>, channels |-> <<>>, parent |-> NoAnalysis]}
Analyses ==
    [identifiers : SUBSET AnalysisNames, locals : SUBSET AnalysisNames,
     externs : SUBSET AnalysisNames, parameters : NameLists,
     channels : {<<>>, <<"y">>}, parent : ParentAnalyses]

CallFreeVariables(a) ==
    /\ call' = [op |-> "FreeVariables", a |-> a, free |-> FreeVariables(a)]
    /\ UNCHANGED <<cells, scopes, inputs, vals, err, log, compiled, status>>

CallScopeAnalysis(p) ==
    /\ call' = [op |-> "ScopeAnalysis", p |-> p,
                tree |-> ScopeAnalysis(Program(p), NewAnalysis).n]
    /\ UNCHANGED <<cells, scopes, inputs, vals, err, log, compiled, status>>

NextAnalysis ==
    \/ \E a \in Analyses : CallFreeVariables(a)
    \/ \E p \in DOMAIN RawPrograms : CallScopeAnalysis(p)

SpecAnalysis == Init /\ [][NextAnalysis]_vars

----------------------------------------------------------------------------
(* The comparison evaluators on their own (compile/evaluator.go,           *)
(* compile/value.go): the evaluator ComparisonOperator makes for l op r,   *)
(* run in a scope that binds l and r to any two values.                    *)

ComparisonTokens ==
    {"EQUAL", "NOT_EQUAL", "LESS", "LESS_EQUAL", "GRTR", "GRTR_EQUAL"}

CompareOperands ==
    {NilValue, TrueValue, FalseValue, IntV(1), IntV(2),
     FloatV("fin", 1, 2), FloatV("fin", 1, 1), NaN, StrV("a"), StrV("b"),
     FuncV(<<>>, <<>>, <<>>, Label(Break, <<0>>), 1)}

CallComparison(tok, left, right) ==
    LET m == [cells |-> <<left, right>>,
              scopes |-> <<[values |-> ("l" :> 1) @@ ("r" :> 2), parent |-> 0]>>,
              log |-> <<>>, compiled |-> <<>>, fuel |-> MaxFuel]
        r == EvalNode(Label(Bin(tok, Id("l"), Id("r")), <<0>>), 1, m)
    IN  /\ call' = [op |-> "Comparison", tok |-> tok, left |-> left,
                    right |-> right, vals |-> r.vals, err |-> r.err]
        /\ UNCHANGED <<cells, scopes, inputs, vals, err, log, compiled, status>>

NextCompare ==
    \E tok \in ComparisonTokens, left \in CompareOperands, right \in CompareOperands :
        CallComparison(tok, left, right)

SpecCompare == Init /\ [][NextCompare]_vars

----------------------------------------------------------------------------
(* The statement list and the conditional on their own                     *)
(* (compile/evaluator.go): the evaluator StatementsEvaluator makes for any *)
(* list of statements, and the one ConditionalOperator makes for any       *)
(* chain of conditions and blocks, each run once in an empty global scope. *)

\* The longest statement list.
MaxStatements == 3

\* 1   "a"   x := 3   extern x   break   continue   return 2   zz
FlowStatements ==
    {IntL("1"), StrL("a"), Asg("x", IntL("3")), Extern("x"), Break, Continue,
     Ret(IntL("2")), Id("zz")}
StatementLists == UNION {[1 .. k -> FlowStatements] : k \in 0 .. MaxStatements}

\* true   false   nil   1   (1, 2)   ()   zz
FlowConditions ==
    {True, False, Nil, IntL("1"), N("LPAREN", "(", <<IntL("1"), IntL("2")>>),
     N("LPAREN", "(", <<>>), Id("zz")}
\* { "a" }   { break }
FlowBlocks == {StrL("a"), Break}
\* if c { b }, if c { b } else { b }, if c { b } else if c { b } and
\* if c { b } else if c { b } else { b }
ConditionalLists ==
    {<<c, b>> : c \in FlowConditions, b \in FlowBlocks}
    \cup {<<c, b, e>> : c \in FlowConditions, b \in FlowBlocks, e \in FlowBlocks}
    \cup {<<c, b, d, e>> : c \in FlowConditions, d \in FlowConditions,
                            b \in FlowBlocks, e \in FlowBlocks}
    \cup {<<c, b, d, e, StrL("b")>> : c \in FlowConditions, d \in FlowConditions,
                                       b \in FlowBlocks, e \in FlowBlocks}

EmptyMachine ==
    [cells |-> <<>>, scopes |-> <<GlobalScope>>, log |-> <<>>, compiled |-> <<>>,
     fuel |-> MaxFuel]

\* The evaluator of the tree, made and run once: what it returned and the
\* nodes whose evaluators were entered.
Evaluated(op, tree) ==
    LET r == EvalNode(Label(tree, <<0>>), topContext, EmptyMachine)
    IN  [op |-> op, ch |-> tree.ch, vals |-> r.vals, err |-> r.err, log |-> r.m.log]

CallStatements(ss) ==
    /\ call = NoCall
    /\ call' = Evaluated("Statements", Stmts(ss))
    /\ UNCHANGED <<cells, scopes, inputs, vals, err, log, compiled, status>>

CallConditional(cs) ==
    /\ call = NoCall
    /\ call' = Evaluated("Conditional", IfN(cs))
    /\ UNCHANGED <<cells, scopes, inputs, vals, err, log, compiled, status>>

NextFlow ==
    \/ \E ss \in StatementLists : CallStatements(ss)
    \/ \E cs \in ConditionalLists : CallConditional(cs)

SpecFlow == Init /\ [][NextFlow]_vars

----------------------------------------------------------------------------
(* Claims.                                                                 *)

\* The step is a call Set(name, val) on scope s.
IsSetStep(s, name, val) ==
    /\ call'.op = "Set" /\ call'.n = Calls + 1
    /\ call'.s = s /\ call'.name = name /\ call'.val = val

Last == inputs[Len(inputs)]
Ran(tree) == inputs # <<>> /\ Last = Index(tree)
Global(name) == Value(Heap, topContext, name).val
IsBound(name) == Bound(Heap, topContext, name)

RECURSIVE NodeAt(_, _)
NodeAt(n, path) ==
    IF path = <<>> THEN n ELSE NodeAt(n.ch[Head(path)], Tail(path))

\* C2: for every function value on the heap, every name of its captured
\* scope is bound to the very cell the name resolves to from the scope the
\* literal was evaluated in, at all times after the capture and whatever the
\* cell held when it was captured.
C2_CapturedCellShared ==
    \A c \in DOMAIN cells :
        cells[c].t = "func" =>
            LET cap == scopes[cells[c].captured]
            IN  \A x \in DOMAIN cap.values :
                    Reference(Heap, cap.parent, x).ref = cap.values[x]

\* After x := nil; f := func(){ return x }; x := 5 the call f() returns nil.
C2_Witness ==
    /\ inputs = <<Index(CaptureNilThenSet), Index(CallF)>>
    /\ err = NoErr /\ vals = <<NilValue>> /\ Global("x") = IntV(5)

\* The body of the function literal that an input of the form
\* name := func(){...} or stmt; name := func(){...} assigns.
BumpLocalBody == NodeAt(Program(Index(BumpLocal)), <<2, 2, 3>>)
BumpExternBody == NodeAt(Program(Index(BumpExtern)), <<2, 2, 3>>)
HoldsClosureOf(name, body) ==
    /\ IsBound(name) /\ Global(name).t = "func"
    /\ Global(name).body.pos = body.pos

\* C3 as stated: with x an int64 and f := func(){ x := x + 1; return x },
\* the calls f(), f() both succeed and the second returns one more than the
\* first, which is what x then holds.
C3_TwoCallsShareCell ==
    (Ran(CallFTwice) /\ HoldsClosureOf("f", BumpLocalBody)
        /\ IsBound("x") /\ Global("x").t = "int64")
    => /\ err = NoErr /\ Len(vals) = 2
       /\ vals[2] = IntV(vals[1].i + 1)
       /\ Global("x") = vals[2]

\* C3 amended: with x an int64 and f := func(){ extern x; x := x + 1;
\* return x }, the calls f(), f() both succeed, the second returns one more
\* than the first, and that is what x holds afterwards; right after the
\* definition with x = 1 they return 2 and 3.
C3_TwoCallsShareExternCell ==
    /\ (Ran(CallFTwice) /\ HoldsClosureOf("f", BumpExternBody))
       => /\ err = NoErr /\ Len(vals) = 2
          /\ vals[1].t = "int64"
          /\ vals[2] = IntV(vals[1].i + 1)
          /\ Global("x") = vals[2]
    /\ inputs = <<Index(BumpExtern), Index(CallFTwice)>>
       => vals = <<IntV(2), IntV(3)>>

C3_Witness ==
    /\ inputs = <<Index(BumpExtern), Index(CallFTwice)>>
    /\ vals = <<IntV(2), IntV(3)>> /\ Global("x") = IntV(3)

RECURSIVE PosOf(_, _)
\* The positions of the nodes of a tree that carry one of the tokens.
PosOf(n, toks) ==
    (IF n.tok \in toks THEN {n.pos} ELSE {})
    \cup UNION {PosOf(n.ch[i], toks) : i \in DOMAIN n.ch}

EarlyReturn == Program(Index(DefEarlyReturn))
EarlyBody == NodeAt(EarlyReturn, <<2, 3>>)
\* return i, 7: the return in the if in the while in the function body.
NestedReturn == NodeAt(EarlyBody, <<2, 2, 2, 2>>)
Applications ==
    UNION {PosOf(Program(p), {"FUNCAPPLY"}) : p \in DOMAIN RawPrograms}

\* C4: once the evaluator of the return nested in the if in the while in the
\* function body has been entered, no evaluator of the body outside the
\* return's own operands is entered again (no later statement, iteration or
\* condition) unless the function is applied anew; and the application
\* f() hands its caller exactly the values the return carried, here the
\* int64 values 2 and 7, with no error and no control value.
C4_ReturnEndsApplication ==
    /\ \A k \in DOMAIN log :
          log[k] = NestedReturn.pos =>
              \A j \in DOMAIN log :
                  (j > k /\ log[j] \in SubtreePos(EarlyBody) \ SubtreePos(NestedReturn))
                  => \E i \in DOMAIN log : k < i /\ i < j /\ log[i] \in Applications
    /\ (Ran(CallF) /\ HoldsClosureOf("f", EarlyBody))
       => /\ err = NoErr /\ vals = <<IntV(2), IntV(7)>>
          /\ \E k \in DOMAIN log : log[k] = NestedReturn.pos
    /\ (Ran(AssignFromF) /\ HoldsClosureOf("f", EarlyBody)
            /\ (IsBound("a") => Global("a").t = "int64"))
       => err = NoErr /\ Global("a") = IntV(2)

C4_Witness ==
    /\ inputs = <<Index(DefEarlyReturn), Index(CallF)>>
    /\ \E k \in DOMAIN log : log[k] = NestedReturn.pos
    /\ vals = <<IntV(2), IntV(7)>>

LiteralValue(n) ==
    CASE n.tok = "TRUE" -> TrueValue
      [] n.tok = "FALSE" -> FalseValue
      [] n.tok = "NIL" -> NilValue
      [] n.tok = "INT" -> IntV(IntLiterals[n.lit])
      [] n.tok = "STRING" -> StrV(n.lit)

Logicals == {AndX, OrX, AndFalse, AndString, OrZero, OrNil}
Count(pos) == Cardinality({k \in DOMAIN log : log[k] = pos})

MakeArgs == {IntL("5"), StrL("a"), True, Nil}
\* The body of the literal func(){ return n } in the input MakeF(arg).
InnerBody(arg) == NodeAt(Program(Index(MakeF(arg))), <<1, 2, 3, 1, 3>>)

\* C6: when f holds the closure returned by make(v), the input
\* g := make(7); f() returns exactly v, for each argument v, although make
\* has been applied to 7 in between; v is 5, "a", true or nil.
C6_ClosureKeepsParameter ==
    \A arg \in MakeArgs :
        (Ran(MakeGCallF) /\ HoldsClosureOf("f", InnerBody(arg)))
        => err = NoErr /\ vals = <<LiteralValue(arg)>>

C6_Witness ==
    /\ inputs = <<Index(MakeF(StrL("a"))), Index(MakeGCallF)>>
    /\ vals = <<StrV("a")>>
    /\ IsBound("g") /\ Global("g").t = "func"

\* C7: v := while true { break } succeeds and binds v to false, and a loop
\* whose condition becomes falsy, v := while x { x := false } with x true,
\* succeeds and binds v to true.
C7_WhileValue ==
    /\ Ran(WhileBreak) => (err = NoErr /\ vals = <<FalseValue>>
                            /\ IsBound("v") /\ Global("v") = FalseValue)
    /\ inputs = <<Index(Asg("x", True)), Index(WhileToEnd)>>
       => (err = NoErr /\ vals = <<TrueValue>> /\ Global("v") = TrueValue)

\* v := while true { break } has failed on the count of values and left v
\* unbound.
C7_Witness ==
    /\ inputs = <<Index(WhileBreak)>>
    /\ err.msg = "count of variables on left does not match number of results on right side"
    /\ ~IsBound("v")

RECURSIVE HasUnknown(_)
\* The tree has a node to evaluate whose token has no producer in
\* nodeEvaluator; of a function literal only the body is ever evaluated, its
\* parameter and channel lists are read by the scope analysis alone.
HasUnknown(n) ==
    IF n.tok = "FUNC" THEN HasUnknown(n.ch[3])
    ELSE n.tok \notin nodeEvaluator \/ \E i \in DOMAIN n.ch : HasUnknown(n.ch[i])

\* C8: an Evaluate of a program with a node of unknown token, at any depth,
\* returns the unknown-operator error, enters no evaluator and leaves every
\* scope and cell as it was.
C8_UnknownBeforeEffects ==
    [][\A p \in DOMAIN RawPrograms :
          (inputs' = Append(inputs, p) /\ HasUnknown(Program(p)))
          => /\ err'.msg = "unknown operator"
             /\ log' = <<>>
             /\ cells' = cells /\ scopes' = scopes]_vars

\* k := 1; h := func(){ z ?= 1 } has set k and then failed.
C8_Witness ==
    /\ inputs = <<Index(UnknownInFunc)>>
    /\ err.msg = "unknown operator"
    /\ IsBound("k") /\ Global("k") = IntV(1) /\ ~IsBound("h")

ZeroDivisions == {IntDivZero, IntModZero, FloatDivZero}

\* C9: 1 / 0, 1 % 0 and 1.0 / 0.0 each return an error that is not a panic,
\* and no value; the session goes on.
C9_ZeroDivisionIsError ==
    \A tree \in ZeroDivisions :
        Ran(tree) => /\ IsErr(err) /\ ~IsPanic(err)
                     /\ vals = <<>>
                     /\ status = "running"

\* 1 / 0 has ended the process with a panic.
C9_WitnessIntPanic ==
    /\ Ran(IntDivZero) /\ status = "panicked"
    /\ err.msg = "panic: integer divide by zero"

\* C10: no cell holds a control value.
C10_NoControlInCell ==
    \A c \in DOMAIN cells : cells[c].t # "control"

\* c := if true { return 1 } has bound c to a return signal.
C10_Witness ==
    /\ Ran(AssignReturn) /\ err = NoErr
    /\ IsBound("c") /\ Global("c") = ControlValue("return", <<IntV(1)>>)

RECURSIVE BadIdents(_)
\* The nodes of a parameter or channel list that Idents rejects.
BadIdents(n) ==
    IF n.tok \notin {"IDENT", "COMMA", "LSQR", "LPAREN"} THEN {n.pos}
    ELSE UNION {BadIdents(n.ch[i]) : i \in DOMAIN n.ch}

RECURSIVE Malformed(_)
\* The nodes the scope analysis is to reject: the left-hand side of an
\* assignment that is neither an identifier nor a comma list of identifiers,
\* and the non-identifier nodes of a parameter or channel list.
Malformed(n) ==
    (IF n.tok = "ASSIGN" /\ ~AssignTargetsOk(n) THEN {n.ch[1].pos} ELSE {})
    \cup (IF n.tok = "FUNC" THEN BadIdents(n.ch[1]) \cup BadIdents(n.ch[2]) ELSE {})
    \cup UNION {Malformed(n.ch[i]) : i \in DOMAIN n.ch}

\* C11: an Evaluate of an input with a malformed left-hand side or a
\* malformed parameter or channel list, at any depth, returns an error that
\* carries the position of such a node, calls Node.Evaluator on nothing,
\* enters no evaluator and leaves every scope and cell as it was.
C11_AnalysisErrorReturned ==
    [][\A p \in DOMAIN RawPrograms :
          (inputs' = Append(inputs, p) /\ Malformed(Program(p)) # {})
          => /\ IsErr(err') /\ err'.pos \in Malformed(Program(p))
             /\ status' = "running"
             /\ compiled' = <<>> /\ log' = <<>>
             /\ cells' = cells /\ scopes' = scopes]_vars

\* f := func(1){ return 2 } was compiled and evaluated, and the evaluation
\* of the function literal ended the process.
C11_Witness ==
    /\ inputs = <<Index(BadParameter)>>
    /\ compiled # <<>> /\ log # <<>>
    /\ status = "panicked" /\ err.msg = "panic: nil pointer dereference"

\* The inputs x := v for a non-nil v.
SetsNonNil == {Index(Asg("x", IntL("1"))), Index(Asg("x", False)),
               Index(Asg("x", True)), Index(Asg("x", StrL("a")))}

\* C12: x := nil after x := v, v an int64, a bool or a string, succeeds and
\* leaves x nil (so that a value of any tag can follow).
C12_NilAlwaysAccepted ==
    (Len(inputs) = 2 /\ inputs[1] \in SetsNonNil /\ Ran(Asg("x", Nil)))
    => err = NoErr /\ vals = <<NilValue>> /\ Global("x") = NilValue

\* x := nil after x := 1 has failed and x is still 1.
C12_Witness ==
    /\ inputs = <<Index(Asg("x", IntL("1"))), Index(Asg("x", Nil))>>
    /\ err.msg = "attempt to convert variable to another type"
    /\ Global("x") = IntV(1)

Range(l) == {l[i] : i \in DOMAIN l}
NoDuplicates(l) == \A i, j \in DOMAIN l : l[i] = l[j] => i = j

RECURSIVE FuncNodes(_)
\* The function literals of a tree that carry a completed Analysis.
FuncNodes(n) ==
    (IF n.tok = "FUNC" /\ n.analysis # NoAnalysis /\ n.analysis.hasBody
     THEN {n} ELSE {})
    \cup UNION {FuncNodes(n.ch[i]) : i \in DOMAIN n.ch}

\* The names FreeVariables is to return for an Analysis.
ExpectedFree(a) ==
    a.externs \cup (a.identifiers
                      \ (Range(a.parameters) \cup Range(a.channels) \cup a.locals))

\* C13: the list FreeVariables returns for an Analysis has no duplicates,
\* holds exactly externs \cup (identifiers \ (parameters \cup channels \cup
\* locals)), and is the same whatever the parent of the Analysis; and the
\* free variables of a function literal analysed inside the tree of an input
\* are those of the literal analysed on its own.
C13_FreeVariables ==
    /\ call.op = "FreeVariables"
       => /\ NoDuplicates(call.free)
          /\ Range(call.free) = ExpectedFree(call.a)
          /\ \A q \in ParentAnalyses :
                 FreeVariables([call.a EXCEPT !.parent = q]) = call.free
    /\ call.op = "ScopeAnalysis"
       => \A f \in FuncNodes(call.tree) :
              LET free == FreeVariables(f.analysis)
              IN  /\ NoDuplicates(free)
                  /\ Range(free) = ExpectedFree(f.analysis)
                  /\ FreeVariables(FuncAnalysis(f).n.analysis) = free

\* FreeVariables was called on an Analysis of an enclosed function in which
\* x is an identifier declared extern and y is a parameter: x alone is free.
C13_Witness ==
    /\ call.op = "FreeVariables"
    /\ call.a.parent # NoAnalysis
    /\ call.a.identifiers = {"x", "y"} /\ call.a.externs = {"x"}
    /\ call.a.parameters = <<"y">> /\ call.a.locals = {}
    /\ call.free = <<"x">>

ExternBodies ==
    {NodeAt(Program(Index(t)), <<2, 2, 3>>) : t \in {ExternThenAssign, AssignThenExtern}}

\* C14: in the Analysis of every function literal of the input just read no
\* name is both an extern and a local; no function value has a local that
\* is also a name of its captured scope; and with the extern declaration
\* before or after the assignment y := y + 1, two calls of g count the
\* global y up: the second returns one more than the first, which is what
\* y then holds, and right after y := 1 they return 2 and 3.
C14_ExternsNotLocals ==
    /\ inputs # <<>>
       => \A f \in FuncNodes(Analyze(Program(Last)).n) :
              f.analysis.locals \cap f.analysis.externs = {}
    /\ \A c \in DOMAIN cells :
           cells[c].t = "func"
           => Range(cells[c].locals)
                  \cap DOMAIN scopes[cells[c].captured].values = {}
    /\ \A body \in ExternBodies :
           (Ran(CallGTwice) /\ HoldsClosureOf("g", body))
           => /\ err = NoErr /\ Len(vals) = 2
              /\ vals[1].t = "int64" /\ vals[2] = IntV(vals[1].i + 1)
              /\ Global("y") = vals[2]
              /\ Len(inputs) = 2 => vals = <<IntV(2), IntV(3)>>

\* After y := 1; g := func(){ y := y + 1; extern y; return y } the calls
\* g(), g() have returned 2 and 3.
C14_Witness ==
    /\ inputs = <<Index(AssignThenExtern), Index(CallGTwice)>>
    /\ vals = <<IntV(2), IntV(3)>> /\ Global("y") = IntV(3)

HeapAfter == [cells |-> cells', scopes |-> scopes']

\* The inputs that end in an assignment to a and b: the place of the
\* assignment in the input and the values of its right-hand side.
AssignCases ==
    {[tree |-> AssignOneTwo, at |-> <<>>, rhs |-> <<IntV(1), IntV(2)>>],
     [tree |-> AssignFiveSeven, at |-> <<>>, rhs |-> <<IntV(5), IntV(7)>>],
     [tree |-> AssignStringSeven, at |-> <<>>, rhs |-> <<StrV("s"), IntV(7)>>],
     [tree |-> AssignTwoFromOne, at |-> <<>>, rhs |-> <<IntV(5)>>],
     [tree |-> AssignOneFromTwo, at |-> <<>>, rhs |-> <<IntV(5), IntV(7)>>],
     [tree |-> AssignTwoFromThree, at |-> <<>>,
      rhs |-> <<IntV(5), IntV(7), IntV(3)>>],
     [tree |-> AssignOneFromPair, at |-> <<2>>, rhs |-> <<IntV(5), IntV(7)>>],
     [tree |-> AssignTwoFromPair, at |-> <<2>>, rhs |-> <<IntV(5), IntV(7)>>]}

\* Set accepts val for the name in the global scope.
Accepts(name, val) ==
    ~IsBound(name) \/ IsNil(Global(name)) \/ TypeOf(Global(name)) = TypeOf(val)

C16_BreakLeavesFunction ==
    /\ (Ran(CallStop) /\ IsBound("stop") /\ Global("stop").t = "func")
       => err = NoErr /\ vals = BreakValue
    /\ Ran(BreakThroughCall) => err = NoErr /\ vals = <<IntV(1)>>

\* The loop of stop := func(){ break }; n := 0; while n < 2 { n := n + 1;
\* stop() }; n has run until its condition ended it: stop was applied twice
\* and n is 2.
C16_Witness ==
    /\ Ran(BreakThroughCall) /\ err = NoErr /\ vals = <<IntV(2)>>
    /\ Count(NodeAt(Program(Index(BreakThroughCall)), <<3, 2, 2>>).pos) = 2

IsBoolResult(vs) == Len(vs) = 1 /\ vs[1].t = "bool"

\* C17: a comparison of two values of different tags returns an error that
\* is no panic; == and != on two values of the same tag nil, bool, int64,
\* float64 or string return a bool and no error, and nil == nil is true;
\* <, <=, > and >= on two int64, two float64 or two strings return a bool
\* and no error, and on two values of any other tag (nil, bool, function)
\* an error that is no panic.
C17_Comparisons ==
    call.op = "Comparison"
    => LET tag == TypeOf(call.left)
           fails == IsErr(call.err) /\ ~IsPanic(call.err)
           answers == call.err = NoErr /\ IsBoolResult(call.vals)
       IN  IF tag # TypeOf(call.right) THEN fails
           ELSE IF call.tok \in {"EQUAL", "NOT_EQUAL"}
           THEN /\ tag \in {"nil", "bool", "int64", "float64", "string"} => answers
                /\ (tag = "nil" /\ call.tok = "EQUAL") => call.vals = <<TrueValue>>
           ELSE IF tag \in {"int64", "float64", "string"} THEN answers
           ELSE fails

\* nil == nil has ended in a nil pointer dereference.
C17_Witness ==
    /\ call.op = "Comparison" /\ call.tok = "EQUAL"
    /\ call.left = NilValue /\ call.right = NilValue
    /\ call.err.msg = "panic: nil pointer dereference" /\ call.vals = <<>>

Logged == {log[k] : k \in DOMAIN log}

\* C18: when the second of the three statements m := 1; e; w := 2 fails (e
\* is m + "s" or the unbound zz), Evaluate returns that error, which is no
\* panic, and no value; the evaluator of e was entered and no evaluator of
\* w := 2 was; m is 1 and w is unbound in the global scope; the session goes
\* on, and the next input m is evaluated to 1 against the same scope.
C18_ErrorAbortsStatements ==
    /\ \A tree \in {ErrorInMiddle, UndefinedInMiddle} :
           LET n == Program(Index(tree))
           IN  Ran(tree)
               => /\ IsErr(err) /\ ~IsPanic(err) /\ vals = <<>>
                  /\ tree = ErrorInMiddle => err.pos = n.ch[2].pos
                  /\ n.ch[2].pos \in Logged
                  /\ SubtreePos(n.ch[3]) \cap Logged = {}
                  /\ IsBound("m") /\ Global("m") = IntV(1)
                  /\ ~IsBound("w")
                  /\ status = "running"
    /\ (Len(inputs) > 1 /\ Ran(Id("m"))
            /\ inputs[Len(inputs) - 1]
                   \in {Index(ErrorInMiddle), Index(UndefinedInMiddle)})
       => err = NoErr /\ vals = <<IntV(1)>>

\* After m := 1; m + "s"; w := 2 has failed, the input m has returned 1.
C18_Witness ==
    /\ inputs = <<Index(ErrorInMiddle), Index(Id("m"))>>
    /\ err = NoErr /\ vals = <<IntV(1)>> /\ ~IsBound("w")

AndCases == {FortyTwoAndTrue, TrueAndFortyTwo, FalseAndFortyTwo, TrueAndFalse}

\* C19: for a && b with literal operands, when a is the bool true the
\* evaluator of b is entered and the value of the expression is b's value;
\* when a is anything else (false, 42) no evaluator of b is entered and the
\* value of the expression is a's value, so that 42 && true yields 42.
C19_AndNeedsTrue ==
    \A tree \in AndCases :
        LET n == Program(Index(tree))
            a == LiteralValue(n.ch[1])
            b == LiteralValue(n.ch[2])
        IN  Ran(tree)
            => /\ err = NoErr
               /\ IF a = TrueValue
                  THEN n.ch[2].pos \in Logged /\ vals = <<b>>
                  ELSE n.ch[2].pos \notin Logged /\ vals = <<a>>

\* 42 && true has evaluated its right operand and returned true.
C19_Witness ==
    /\ Ran(FortyTwoAndTrue) /\ err = NoErr /\ vals = <<TrueValue>>
    /\ Program(Index(FortyTwoAndTrue)).ch[2].pos \in Logged

HBody == NodeAt(Program(Index(DefH)), <<3, 2, 3>>)

\* The inputs that apply h, and what they are to return.
ApplyCases ==
    {[tree |-> CallH, vals |-> <<NilValue, IntV(3), IntV(9)>>],
     [tree |-> CallHTwice,
      vals |-> <<NilValue, IntV(3), IntV(9), NilValue, IntV(2), IntV(9)>>],
     [tree |-> CallHFromOuter, vals |-> <<IntV(1), IntV(2)>>]}

\* C20: h is func(p){ r := t; t := p; p := 9; return r, t, p }, defined
\* where t is 5 and p is "g".  Every application h(v) returns nil, v, 9:
\* the local t is nil when the body starts, in the first call and in every
\* later one, and p is the argument.  Applied inside outer, whose locals t
\* and p are 1 and 2, it leaves them 1 and 2.  Every binding of t, p or r
\* in a scope that was there before the input keeps its cell, and the cell
\* its value.
C20_FreshScopePerCall ==
    [][\A c \in ApplyCases :
          (inputs' = Append(inputs, Index(c.tree)) /\ HoldsClosureOf("h", HBody))
          => /\ err' = NoErr
             /\ vals' = c.vals
             /\ \A s \in DOMAIN scopes, name \in {"t", "p", "r"} :
                    Bound(Heap, s, name)
                    => /\ Bound(HeapAfter, s, name)
                       /\ scopes'[s].values[name] = scopes[s].values[name]
                       /\ cells'[scopes[s].values[name]]
                              = cells[scopes[s].values[name]]]_vars

\* After the definition of h, h(3), h(2) has returned nil, 3, 9, nil, 2, 9
\* and the global t and p are still 5 and "g".
C20_Witness ==
    /\ inputs = <<Index(DefH), Index(CallHTwice)>>
    /\ vals = <<NilValue, IntV(3), IntV(9), NilValue, IntV(2), IntV(9)>>
    /\ Global("t") = IntV(5) /\ Global("p") = StrV("g") /\ ~IsBound("r")

\* What each statement, condition and block of the lists returns when it is
\* evaluated in the empty global scope, and which of them fail.
Fails(n) == n = Id("zz")
Outcome(n) ==
    CASE n = IntL("1") -> <<IntV(1)>>
      [] n = StrL("a") -> <<StrV("a")>>
      [] n = StrL("b") -> <<StrV("b")>>
      [] n = Asg("x", IntL("3")) -> <<IntV(3)>>
      [] n = Extern("x") -> <<>>
      [] n = Break -> BreakValue
      [] n = Continue -> ContinueValue
      [] n = Ret(IntL("2")) -> ReturnValue(<<IntV(2)>>)
      [] n = True -> <<TrueValue>>
      [] n = False -> <<FalseValue>>
      [] n = Nil -> <<NilValue>>
      [] n = N("LPAREN", "(", <<IntL("1"), IntL("2")>>) -> <<IntV(1), IntV(2)>>
      [] n = N("LPAREN", "(", <<>>) -> <<>>
IsChild(q) == Len(q) = 2
\* The children of the node the call was made on, in the order their
\* evaluators were entered.
ChildrenEntered == SelectSeq(call.log, IsChild)
Least(S) == CHOOSE i \in S : \A j \in S : i <= j
\* The statements that end the list: an error or a control signal.
Stops(ss) == {i \in DOMAIN ss : Fails(ss[i]) \/ IsControlValue(Outcome(ss[i]))}

\* C21: a statement list enters the evaluators of its children in source
\* order, each once, up to and including the first child that returns a
\* control signal (or an error) and none after it; a control signal is
\* returned as it is, otherwise the results are those of the last child
\* alone, and the empty list returns the empty result list with no error.
C21_StatementsInOrder ==
    call.op = "Statements"
    => LET ss == call.ch
           k == IF Stops(ss) = {} THEN Len(ss) ELSE Least(Stops(ss))
       IN  /\ ChildrenEntered = [i \in 1 .. k |-> <<0, i>>]
           /\ IF ss = <<>> THEN call.vals = <<>> /\ call.err = NoErr
              ELSE IF Fails(ss[k]) THEN call.vals = <<>> /\ IsErr(call.err)
              ELSE call.vals = Outcome(ss[k]) /\ call.err = NoErr

\* 1; break; "a" has returned the break signal without entering "a".
C21_Witness ==
    /\ call.op = "Statements"
    /\ call.ch = <<IntL("1"), Break, StrL("a")>>
    /\ call.vals = BreakValue
    /\ ChildrenEntered = <<<<0, 1>>, <<0, 2>>>>

\* The conditions of a chain: the odd places that have a block after them;
\* an odd place at the end is the else block.
Conditions(cs) == {i \in DOMAIN cs : i % 2 = 1 /\ i < Len(cs)}
HasElse(cs) == Len(cs) % 2 = 1
\* The conditions that end the chain: an error, a result that is not one
\* value, or one truthy value.
Decides(cs) ==
    {i \in Conditions(cs) :
        \/ Fails(cs[i])
        \/ Len(Outcome(cs[i])) # 1
        \/ IsTruthy(Outcome(cs[i])[1])}
\* The odd places up to k, as places of children.
OddChildren(k) == [j \in 1 .. (k + 1) \div 2 |-> <<0, 2 * j - 1>>]

\* C22: a conditional enters its conditions from the left, each once, up to
\* the first one that is truthy, fails or does not return one value; a
\* truthy one is followed by its own block alone, whose result is returned
\* as it is; a condition of zero or several values returns the
\* single-value error and no block is entered; when no condition is truthy
\* the else block, if there is one, is entered after all the conditions and
\* its result returned, and otherwise no block is entered.
C22_ConditionalInOrder ==
    call.op = "Conditional"
    => LET cs == call.ch
       IN  IF Decides(cs) # {}
           THEN LET i == Least(Decides(cs))
                IN  IF Fails(cs[i])
                    THEN ChildrenEntered = OddChildren(i) /\ IsErr(call.err)
                    ELSE IF Len(Outcome(cs[i])) # 1
                    THEN /\ ChildrenEntered = OddChildren(i)
                         /\ call.err = Err("expected single value", <<0>>)
                    ELSE /\ ChildrenEntered = Append(OddChildren(i), <<0, i + 1>>)
                         /\ call.vals = Outcome(cs[i + 1])
                         /\ call.err = NoErr
           ELSE IF HasElse(cs)
           THEN /\ ChildrenEntered = OddChildren(Len(cs))
                /\ call.vals = Outcome(cs[Len(cs)])
                /\ call.err = NoErr
           ELSE /\ ChildrenEntered = OddChildren(Len(cs) - 1)
                /\ call.err = NoErr

\* if false { "a" } else if true { break } else { "b" } has entered both
\* conditions and the second block alone, and returned the break signal.
C22_Witness ==
    /\ call.op = "Conditional"
    /\ call.ch = <<False, StrL("a"), True, Break, StrL("b")>>
    /\ call.vals = BreakValue
    /\ ChildrenEntered = <<<<0, 1>>, <<0, 3>>, <<0, 4>>>>

\* C23: in the evaluation of an input Node.Evaluator is called at most
\* once on every node, however often the evaluators made from the nodes
\* are run.
C23_CompiledOnce == NoDuplicates(compiled)

\* The loop of j := 0; while j < 2 { j := j + 1; lit := func(){ return j } }
\* has evaluated the function literal twice and ended.
C23_Witness ==
    /\ Ran(LiteralInLoop) /\ err = NoErr
    /\ Global("j") = IntV(2)
    /\ Count(<<Index(LiteralInLoop), 2, 2, 2, 2>>) = 2

\* The inputs that define outer and caller, with and without a global q.
OuterCallerInputs == {Index(DefOuterCaller), Index(QThenOuterCaller)}
\* The function values on the heap that captured the name.
Capturing(name) ==
    {c \in DOMAIN cells :
        /\ cells[c].t = "func"
        /\ name \in DOMAIN scopes[cells[c].captured].values}

\* C24: after outer := func(){ return func(){ return q } } and
\* caller := func(){ q := 7; g := outer(); return g() }, the call caller()
\* never returns the 7 of caller's own local q, and every function value
\* that captured q holds the cell of the global q, the only q visible where
\* outer was written.
C24_LexicalResolution ==
    (Len(inputs) = 2 /\ inputs[1] \in OuterCallerInputs /\ Ran(CallCaller))
    => /\ IntV(7) \notin Range(vals)
       /\ \A c \in Capturing("q") :
              /\ IsBound("q")
              /\ scopes[cells[c].captured].values["q"]
                     = scopes[topContext].values["q"]

\* caller() has returned 7 while the global q is 1.
C24_Witness ==
    /\ inputs = <<Index(QThenOuterCaller), Index(CallCaller)>>
    /\ vals = <<IntV(7)>> /\ err = NoErr
    /\ Global("q") = IntV(1)

\* The node at a logged position: the head of a position is its input.
Tree(pos) == NodeAt(Program(pos[1]), Tail(pos))
\* The while loops a position lies in.
LoopsAbove(pos) ==
    {k \in 1 .. Len(pos) - 1 : Tree(SubSeq(pos, 1, k)).tok = "WHILE"}
Greatest(S) == CHOOSE i \in S : \A j \in S : j <= i
\* The condition of the innermost loop around the position.
ConditionAbove(pos) == Append(SubSeq(pos, 1, Greatest(LoopsAbove(pos))), 1)

\* C25: whenever the evaluator of a continue inside a while body is
\* entered, the next evaluator entered is the condition of the innermost
\* loop around it, so no statement after the continue runs in that turn; no
\* result and no cell holds a continue signal; and the three loops with a
\* continue run to the end of their conditions: n, k is 2, 0 when continue
\* comes before k := k + 1, and 3, 7 when only the turn n == 2 continues
\* after k := k + 5.
C25_ContinueSkipsTurn ==
    /\ \A i \in DOMAIN log :
           (Tree(log[i]).tok = "CONTINUE" /\ LoopsAbove(log[i]) # {})
           => i < Len(log) /\ log[i + 1] = ConditionAbove(log[i])
    /\ ~IsContinueValue(vals)
    /\ \A c \in DOMAIN cells : ~IsContinueValue(<<cells[c]>>)
    /\ Ran(ContinueDirect) => vals = <<IntV(2), IntV(0)>> /\ err = NoErr
    /\ Ran(ContinueNested) => vals = <<IntV(3), IntV(7)>> /\ err = NoErr
    /\ Ran(ContinueLast)
       => vals = <<FalseValue>> /\ err = NoErr /\ Global("n") = IntV(2)

\* The loop of the nested input has continued once, from inside the block
\* of the conditional, and run its third turn.
C25_Witness ==
    /\ Ran(ContinueNested)
    /\ Count(<<Index(ContinueNested), 3, 2, 2, 2, 2>>) = 1
    /\ vals = <<IntV(3), IntV(7)>>

\* The inputs that assign a function literal to a name.
LiteralInputs == {SelfRecursive, LateBinding, ExternUnbound, UnboundAndUnknown}
\* The literal of such an input, analysed, and its free variables that the
\* global scope does not bind.
LiteralOf(t) == Analyze(Program(Index(t))).n.ch[2]
Unbound(t) == {v \in Range(FreeVariables(LiteralOf(t).analysis)) : ~IsBound(v)}
\* The input is read, and what it leaves of the global scope.
Reads(t) == inputs' = Append(inputs, Index(t))
NoFunctionFrom(t) ==
    /\ vals' = <<>>
    /\ cells' = cells
    /\ scopes'[topContext] = scopes[topContext]

RECURSIVE Ancestors(_)
\* The scopes above a scope.
Ancestors(s) ==
    IF scopes[s].parent = 0 THEN {}
    ELSE {scopes[s].parent} \cup Ancestors(scopes[s].parent)
\* The pairs of bindings, in two scopes, that hold one cell.
SharedIn(h) ==
    {<<s, t, a, b>> \in (DOMAIN h.scopes) \X (DOMAIN h.scopes) \X ApiNames \X ApiNames :
        /\ s # t
        /\ Bound(h, s, a) /\ Bound(h, t, b)
        /\ h.scopes[s].values[a] = h.scopes[t].values[b]}

\* C27: a call Set(name, val) on scope s leaves the map of every other
\* scope and the parent of s as they were; when s does not bind the name
\* itself the call succeeds whatever the ancestors hold, binds the name in
\* s to a new cell holding val, and every ancestor sees the values it saw
\* before; the value an ancestor t sees changes in a Set on s only when s
\* and t already bind the very same cell; and two scopes come to bind one
\* cell only in a call of SetRef.
C27_SetIsLocal ==
    [][/\ \A s \in DOMAIN scopes, name \in ApiNames, val \in ApiValues :
            IsSetStep(s, name, val)
            => /\ \A t \in DOMAIN scopes \ {s} : scopes'[t] = scopes[t]
               /\ scopes'[s].parent = scopes[s].parent
               /\ ~Bound(Heap, s, name)
                  => /\ call'.err = NoErr
                     /\ cells' = Append(cells, val)
                     /\ scopes'[s].values[name] = Len(cells) + 1
                     /\ \A t \in Ancestors(s), n \in ApiNames :
                            Value(HeapAfter, t, n) = Value(Heap, t, n)
               /\ \A t \in Ancestors(s), n \in ApiNames :
                      Value(HeapAfter, t, n) # Value(Heap, t, n)
                      => /\ Bound(Heap, s, name)
                         /\ Reference(Heap, t, n).ref = scopes[s].values[name]
       /\ call'.op \in {"Set", "NewScope"} => SharedIn(HeapAfter) \subseteq SharedIn(Heap)]_vars

\* Set(x, "a") on a child scope has just succeeded while the parent holds
\* the int64 1 in another cell, and still does.
C27_Witness ==
    /\ call # NoCall /\ call.op = "Set" /\ call.err = NoErr
    /\ call.val = StrV("a") /\ call.s # topContext
    /\ topContext \in Ancestors(call.s)
    /\ Value(Heap, topContext, "x").val = IntV(1)
    /\ Value(Heap, call.s, "x").val = StrV("a")

\* The assignments to c and d and the values of their right-hand sides.
PairCases ==
    {[tree |-> AssignCD(IntL("1"), IntL("2")), rhs |-> <<IntV(1), IntV(2)>>],
     [tree |-> AssignCD(IntL("7"), StrL("s")), rhs |-> <<IntV(7), StrV("s")>>],
     [tree |-> AssignCD(StrL("s"), IntL("7")), rhs |-> <<StrV("s"), IntV(7)>>],
     [tree |-> AssignCD(StrL("s"), StrL("t")), rhs |-> <<StrV("s"), StrV("t")>>]}
\* The name is bound after the step exactly if it was, to the same cell
\* holding the same value.
Untouched(name) ==
    /\ Bound(HeapAfter, topContext, name) = IsBound(name)
    /\ IsBound(name)
       => /\ Reference(HeapAfter, topContext, name) = Reference(Heap, topContext, name)
          /\ Value(HeapAfter, topContext, name).val = Global(name)

\* C28: when c, d := v1, v2 is read and the first name that does not accept
\* its value is the i-th, the error is the type mismatch of Set, the result
\* list is empty, the names before the i-th hold their new values and the
\* i-th and the later ones are bound, or not, as before, to the same cells
\* and values; when both names accept their values there is no error and
\* both hold them.
C28_AssignmentNotAtomic ==
    [][\A p \in PairCases :
          Reads(p.tree)
          => LET names == varNames(Program(Index(p.tree)))
                 refused == {i \in DOMAIN names : ~Accepts(names[i], p.rhs[i])}
             IN  IF refused = {}
                 THEN /\ err' = NoErr /\ vals' = p.rhs
                      /\ \A j \in DOMAIN names :
                             Value(HeapAfter, topContext, names[j]).val = p.rhs[j]
                 ELSE /\ err' = Err("attempt to convert variable to another type", <<>>)
                      /\ vals' = <<>>
                      /\ \A j \in DOMAIN names :
                             IF j < Least(refused)
                             THEN Value(HeapAfter, topContext, names[j]).val = p.rhs[j]
                             ELSE Untouched(names[j])]_vars

\* c, d := 7, "s" after c, d := 1, 2 has failed on d and left c at 7.
C28_Witness ==
    /\ inputs = <<Index(AssignCD(IntL("1"), IntL("2"))),
                  Index(AssignCD(IntL("7"), StrL("s")))>>
    /\ err = Err("attempt to convert variable to another type", <<>>)
    /\ vals = <<>>
    /\ Global("c") = IntV(7) /\ Global("d") = IntV(2)

RECURSIVE AllNames(_)
\* The names written anywhere in a tree.
AllNames(n) ==
    (IF n.tok = "IDENT" THEN {n.lit} ELSE {})
    \cup UNION {AllNames(n.ch[i]) : i \in DOMAIN n.ch}
RECURSIVE OwnNames(_)
\* The names written in a tree outside its function literals.
OwnNames(n) ==
    IF n.tok = "FUNC" THEN {}
    ELSE (IF n.tok = "IDENT" THEN {n.lit} ELSE {})
         \cup UNION {OwnNames(n.ch[i]) : i \in DOMAIN n.ch}
\* The names a function writes only inside the function literals of its
\* body.
NestedOnly(f) == AllNames(f.ch[3]) \ OwnNames(f.ch[3])
\* Every name an Analysis records, its free variables included.
Recorded(a) ==
    a.identifiers \cup a.locals \cup a.externs \cup Range(FreeVariables(a))

\* C29: in the analysed tree of every input, the Analysis of a function
\* records, as identifier, local, extern or free variable, no name that is
\* written only inside the function literals of its body, and every such
\* name is recorded in the Analysis of one of those literals or is one of
\* its parameters.
C29_FunctionBoundaries ==
    call.op = "ScopeAnalysis"
    => \A f \in FuncNodes(call.tree) :
           /\ NestedOnly(f) \cap Recorded(f.analysis) = {}
           /\ \A name \in NestedOnly(f) :
                  \E g \in FuncNodes(f.ch[3]) :
                      name \in Recorded(g.analysis) \cup Range(g.analysis.parameters)

\* The analysis of deep := func(){ return func(){ extern ev; av := ev;
\* return av } } has left the outer function with no name at all and the
\* inner one with the extern ev and the local av.
C29_Witness ==
    /\ call.op = "ScopeAnalysis" /\ call.p = Index(NestedExternAssign)
    /\ Recorded(call.tree.ch[2].analysis) = {}
    /\ LET inner == call.tree.ch[2].ch[3].ch[1].analysis
       IN  /\ inner.externs = {"ev"} /\ inner.locals = {"av"}
           /\ inner.identifiers = {"ev", "av"}
           /\ FreeVariables(inner) = <<"ev">>

\* The assignments of a conditional with no else and no truthy condition,
\* and the value of the last condition.
NoElseCases ==
    {[tree |-> IfFalse, last |-> FalseValue],
     [tree |-> IfNil, last |-> NilValue],
     [tree |-> IfFalseElseIfNil, last |-> NilValue]}
\* The blocks of a conditional at position pos that has k children.
BlocksOf(pos, k) == {Append(pos, 2 * j) : j \in 1 .. k \div 2}

====
